---- MODULE Spec2Model ----
(***************************************************************************)
(* A model of the core of jshun/gbbs: the block-amortized variable-byte    *)
(* codec (src/src/encodings/byte_pd_amortized.h), the concurrent block     *)
(* allocator (src/pbbslib/block_allocator.h) and the BFS / weighted-BFS    *)
(* drivers (src/benchmark/BFS.h, src/benchmark/wBFS.h).                    *)
(*                                                                         *)
(* An encoded neighbor region is a byte array indexed from 0, the index    *)
(* being the offset from edge_start.  32-bit words are stored as four      *)
(* bytes, least significant first.  All modelled values stay below 2^30,   *)
(* so unsigned 32-bit arithmetic never wraps in the codec.                 *)
(***************************************************************************)
EXTENDS Integers, Sequences, FiniteSets, TLC

VARIABLES
  \* ---- codec ----
  cpc,        \* "input" before sequentialCompressEdgeSet, "encoded" after
  edgeArray,  \* the encoded region: [0..size-1 -> 0..255]
  source,     \* the vertex whose neighbor list is encoded
  degree,     \* the vertex's current degree (as returned by the last pack)
  weighted,   \* TRUE: W = intE, FALSE: W = pbbslib::empty
  input,      \* the sequence of <<ngh, wgh>> handed to the encoder
  preds,      \* the predicates of the pack calls made so far, in order
  out,        \* the result of the last read operation
  par_tasks,  \* during a parallel decode: block -> the number of calls its
              \* task has made
  par_calls   \* during a parallel decode: the calls made so far, in order

codecVars == <<cpc, edgeArray, source, degree, weighted, input, preds, out,
               par_tasks, par_calls>>

VARIABLES
  \* ---- block allocator ----
  apc,              \* per worker: where its alloc / free call stands
  local_lists,      \* per worker: [sz, head, mid]
  global_stack,     \* concurrent_stack<block_p>: list heads, top first
  pool_roots,       \* concurrent_stack<uchar*>: slab starts, top first
  blocks_allocated, \* std::atomic<size_t>
  next,             \* block -> block->next, for every block handed out by
                    \* aligned_alloc so far (the blocks are 1, 2, 3, ...)
  areg,             \* per worker: the locals of its allocate_blocks call
                    \* (start, num_blocks) and the lists its reserve has
                    \* still to push
  held,             \* block -> number of outstanding allocations of it
  exited,           \* exit(1) was called
  acalls,           \* the number of blocks asked for so far
  aout,             \* the result of the last num_used_blocks call
  max_blocks,       \* size_t max_blocks
  list_length       \* size_t list_length

allocVars == <<apc, local_lists, global_stack, pool_roots, blocks_allocated,
               next, areg, held, exited, acalls, aout, max_blocks,
               list_length>>

VARIABLES
  \* ---- BFS and edgeMap ----
  bpc,        \* "loop": at the while test of BFS, "sparse": inside a push
              \* edgeMap, "done": BFS has returned; "em", "em_done": a single
              \* edgeMap run both ways
  GA,         \* the graph: [n, E], vertices 0..n-1 and edges <<u, v>>
  bsrc,       \* BFS's src
  Parents,    \* vertex -> parent, UINT_E_MAX when not visited
  Frontier,   \* the vertexSubset Frontier, as a set
  pending,    \* push mode: the calls (s, d) not made yet
  output,     \* push mode: the destinations accepted so far
  reachable,  \* BFS's counter
  printed,    \* the frontier sizes BFS has printed
  ParentsD,   \* Parents of the pull run of the same edgeMap
  outputD,    \* the pull run: whether it has run, and its output
  tested,     \* push mode: the calls (s, d) whose cond(d) has returned true
              \* and whose updateAtomic(s, d) is still to come
  wins,       \* vertex -> the number of updateAtomic calls on it that have
              \* returned true
  entered     \* vertex -> the number of times it was put into a frontier

bfsVars == <<bpc, GA, bsrc, Parents, Frontier, pending, output, reachable,
             printed, ParentsD, outputD, tested, wins, entered>>

VARIABLES
  \* ---- wBFS ----
  wpc,        \* "loop": at the while test, "em": inside edgeMapData, "done"
  WG,         \* the weighted graph: [n, E], edges <<u, v, w>>
  dists,      \* vertex -> uintE, as [top, low]: bit 31 and bits 0..30
  prio,       \* the buckets b: vertex -> bucket id, UINT_E_MAX when in none
  cur,        \* the buckets b: the smallest bucket id not yet passed
  bkt,        \* the bucket returned by the last b.next_bucket()
  wcalls,     \* edgeMapData: the updateAtomic calls not started yet
  inflight,   \* edgeMapData: the calls past their reads, with their locals
  res,        \* edgeMapData: the pairs <<d, oval>> returned so far
  rd,         \* the number of rounds
  returned,   \* history: the buckets returned by b.next_bucket(), in order
  belowCur,   \* history: some update's destination was below the bucket
              \* being processed
  dists0,     \* history: dists as edgeMapData found it in this round
  presents,   \* history: vertex -> the number of updateAtomic calls on it
              \* that have returned a value in this round
  lowered     \* history: the vertices whose dists entry a call of this round
              \* has written

roundHist == <<dists0, presents, lowered>>

wbfsVars == <<wpc, WG, dists, prio, cur, bkt, wcalls, inflight, res, rd,
              returned, belowCur, roundHist>>

VARIABLES
  \* ---- KTruss_ht (its buckets b are prio, cur, bkt above) ----
  kpc,        \* "loop": at the while test, "spin": the loop no longer changes
              \* anything, "done"
  KG,         \* the undirected graph: the set of its edges <<u, v>>, u < v
  trussness,  \* trussness_multi: table slot <<u, v>> -> value
  finished    \* the number of edges peeled

ktrussVars == <<kpc, KG, trussness, finished>>

vars == <<codecVars, allocVars, bfsVars, wbfsVars, ktrussVars>>

\* The variables of the parts other than the codec / the allocator / BFS /
\* wBFS.
nonCodecVars == <<allocVars, bfsVars, wbfsVars, ktrussVars>>
nonAllocVars == <<codecVars, bfsVars, wbfsVars, ktrussVars>>
nonBfsVars == <<codecVars, allocVars, wbfsVars, ktrussVars>>
nonWbfsVars == <<codecVars, allocVars, bfsVars, ktrussVars>>
nonPeelVars == <<codecVars, allocVars, bfsVars>>

-----------------------------------------------------------------------------
(* Bounds of the model *)

\* Edges per block.  The program uses 1000; the layout and every loop are
\* parametric in it, and the model runs with small blocks.
PARALLEL_DEGREE == 2
\* Largest degree of the exhaustively enumerated short neighbor lists.
MaxShortDeg == 4
\* Degree of the long neighbor list (its double is used too), long enough for
\* pack to reach the repack threshold virtual_degree / 10.
LongDeg == 20
\* Number of pack calls applied to one region.
MaxPacks == 2
\* Edge indices below this bound are tried as the index where the decode
\* callback returns false, and as the index handed to get_ith_neighbor.
MaxProbe == 5

-----------------------------------------------------------------------------
(* Words and bytes *)

EDGE_SIZE_PER_BYTE == 7

LAST_BIT_SET(b) == b >= 128

\* *((uintE*)(edge_start + off))
ReadU32(mem, off) ==
  mem[off] + 256 * mem[off + 1] + 65536 * mem[off + 2] + 16777216 * mem[off + 3]

\* *((uintE*)(edge_start + off)) = v
WriteU32(mem, off, v) ==
  [mem EXCEPT ![off]     = v % 256,
              ![off + 1] = (v \div 256) % 256,
              ![off + 2] = (v \div 65536) % 256,
              ![off + 3] = (v \div 16777216) % 256]

\* 1 + (virtual_degree - 1) / PARALLEL_DEGREE
NumBlocks(d) == 1 + (d - 1) \div PARALLEL_DEGREE

Min(a, b) == IF a < b THEN a ELSE b

\* Eager(v, e) is e.  TLC evaluates operator arguments on demand, and a loop
\* over many blocks would otherwise be evaluated as one deep nest; comparing v
\* with itself evaluates the value of the completed iteration first.
Eager(v, e) == IF v = v THEN e ELSE e

-----------------------------------------------------------------------------
(* Reading edges.  A reader returns the value read and the finger after it. *)
(* A value that is used several times is bound as the parameter of a local  *)
(* operator (LET K(r) == ... IN K(expr)), which evaluates it once.          *)

\* The continuation loop of eatFirstEdge / eatWeight / eatEdge: 7 bits per
\* byte, least significant chunk first, until a byte without the top bit.
RECURSIVE eatContinuation(_, _, _, _)
eatContinuation(mem, start, edgeRead, shiftAmount) ==
  IF LAST_BIT_SET(mem[start])
    THEN eatContinuation(mem, start + 1,
                         edgeRead + (mem[start] % 128) * (2 ^ shiftAmount),
                         shiftAmount + EDGE_SIZE_PER_BYTE)
    ELSE [val    |-> edgeRead + (mem[start] % 128) * (2 ^ shiftAmount),
          finger |-> start + 1]

\* Magnitude and sign of a first-edge style number: 6 bits and a sign bit
\* (0x40) in byte 0, the rest in continuation bytes from shift 6 on.
eatSigned(mem, start) ==
  LET fb   == mem[start]
      K(r) == [val |-> r.val, neg |-> (fb \div 64) % 2 = 1, finger |-> r.finger]
  IN  K(IF LAST_BIT_SET(fb)
          THEN eatContinuation(mem, start + 1, fb % 64, 6)
          ELSE [val |-> fb % 64, finger |-> start + 1])

eatFirstEdge(mem, start, src) ==
  LET K(r) == [val    |-> IF r.neg THEN src - r.val ELSE src + r.val,
               finger |-> r.finger]
  IN  K(eatSigned(mem, start))

eatEdge(mem, start) == eatContinuation(mem, start, 0, 0)

\* eatWeight<W>: no bytes for the unit weight (value 0 in the model), a signed
\* number for W = intE.
eatWeight(mem, start, isW) ==
  LET K(r) == [val |-> IF r.neg THEN 0 - r.val ELSE r.val, finger |-> r.finger]
  IN  IF isW THEN K(eatSigned(mem, start))
             ELSE [val |-> 0, finger |-> start]

\* uintE ngh = eatFirstEdge(finger, source); W wgh = eatWeight<W>(finger);
eatFirstPair(mem, finger, src, isW) ==
  LET K(f) ==
        LET K2(w) == [ngh |-> f.val, wgh |-> w.val, finger |-> w.finger]
        IN  K2(eatWeight(mem, f.finger, isW))
  IN  K(eatFirstEdge(mem, finger, src))

\* ngh += eatEdge(finger); wgh = eatWeight<W>(finger);
eatNextPair(mem, finger, ngh, isW) ==
  LET K(e) ==
        LET K2(w) == [ngh |-> ngh + e.val, wgh |-> w.val, finger |-> w.finger]
        IN  K2(eatWeight(mem, e.finger, isW))
  IN  K(eatEdge(mem, finger))

-----------------------------------------------------------------------------
(* Writing edges.  A writer takes and returns a cursor [mem, off]: the      *)
(* array and the index of the next byte to write (start + offset).          *)

\* while ((curByte > 0) || (toCompress > 0)) { ... start[offset++] = toWrite }
RECURSIVE compressLoop(_, _)
compressLoop(w, toCompress) ==
  IF toCompress % 128 > 0 \/ toCompress > 0
    THEN compressLoop(
           [mem |-> [w.mem EXCEPT ![w.off] =
                       IF toCompress \div 128 > 0 THEN (toCompress % 128) + 128
                                                  ELSE toCompress % 128],
            off |-> w.off + 1],
           toCompress \div 128)
    ELSE w

\* compressFirstEdge without the sign bit: |target - source| only.
compressFirstEdgeNoSign(w, src, target) ==
  LET preCompress == target - src
      toCompress  == IF preCompress < 0 THEN 0 - preCompress ELSE preCompress
      firstByte   == (toCompress % 64)
                     + (IF toCompress \div 64 > 0 THEN 128 ELSE 0)
  IN  compressLoop([mem |-> [w.mem EXCEPT ![w.off] = firstByte], off |-> w.off + 1],
                   toCompress \div 64)

\* target - source with the sign bit (0x40) and 6 bits in byte 0, then the
\* remaining bits 7 per byte.
compressFirstEdge(w, src, target) ==
  LET preCompress == target - src
      toCompress  == IF preCompress < 0 THEN 0 - preCompress ELSE preCompress
      firstByte   == (toCompress % 64)
                     + (IF preCompress < 0 THEN 64 ELSE 0)
                     + (IF toCompress \div 64 > 0 THEN 128 ELSE 0)
  IN  compressLoop([mem |-> [w.mem EXCEPT ![w.off] = firstByte], off |-> w.off + 1],
                   toCompress \div 64)

compressWeight(w, wgh, isW) ==
  IF isW THEN compressFirstEdge(w, 0, wgh) ELSE w

\* e is the difference between this edge and the previous edge
compressEdge(w, e) == compressLoop(w, e)

-----------------------------------------------------------------------------
(* sequentialCompressEdgeSet.  The iterator it is the sequence edges and a   *)
(* position in it: it.cur() is edges[1], each it.next() moves one further.   *)

\* for (edgeI = 1; edgeI < end; edgeI++) of one block
RECURSIVE seqCompressEdges(_, _, _, _, _, _, _)
seqCompressEdges(w, edges, pos, edgeI, end, last_ngh, isW) ==
  IF edgeI < end
    THEN seqCompressEdges(
           compressWeight(compressEdge(w, edges[pos + 1][1] - last_ngh),
                          edges[pos + 1][2], isW),
           edges, pos + 1, edgeI + 1, end, edges[pos + 1][1], isW)
    ELSE [mem |-> w.mem, off |-> w.off, pos |-> pos]

\* for (i = 0; i < num_blocks; i++): block offset (all blocks but the first),
\* cumulative start index o, first edge, the other edges.
RECURSIVE seqCompressBlocks(_, _, _, _, _, _, _, _)
seqCompressBlocks(w, start_offset, deg, src, edges, pos, i, isW) ==
  IF i < NumBlocks(deg)
    THEN LET o   == i * PARALLEL_DEGREE
             end == Min(PARALLEL_DEGREE, deg - o)
             p1  == IF i = 0 THEN pos ELSE pos + 1
             hdr == WriteU32(IF i > 0
                               THEN WriteU32(w.mem, 4 + 4 * (i - 1),
                                             w.off - start_offset)
                               ELSE w.mem,
                             w.off, o)
             Next(r) == Eager(r, seqCompressBlocks([mem |-> r.mem, off |-> r.off],
                                                   start_offset, deg, src, edges,
                                                   r.pos, i + 1, isW))
         IN  Next(seqCompressEdges(
                    compressWeight(
                      compressFirstEdge([mem |-> hdr, off |-> w.off + 4], src,
                                        edges[p1][1]),
                      edges[p1][2], isW),
                    edges, p1, 1, end, edges[p1][1], isW))
    ELSE w

\* sequentialCompressEdgeSet with *vertex_ctr = num_blocks.
sequentialCompressEdgeSetNoCtr(mem, current_offset, deg, src, edges, isW) ==
  IF deg > 0
    THEN seqCompressBlocks([mem |-> WriteU32(mem, 0, NumBlocks(deg)),
                            off |-> current_offset + 4 + (NumBlocks(deg) - 1) * 4],
                           current_offset, deg, src, edges, 1, 0, isW)
    ELSE [mem |-> mem, off |-> current_offset]

\* Returns the cursor after the region: mem is edgeArray, off the returned
\* current_offset.
sequentialCompressEdgeSet(mem, current_offset, deg, src, edges, isW) ==
  IF deg > 0
    THEN seqCompressBlocks([mem |-> WriteU32(mem, 0, deg),
                            off |-> current_offset + 4 + (NumBlocks(deg) - 1) * 4],
                           current_offset, deg, src, edges, 1, 0, isW)
    ELSE [mem |-> mem, off |-> current_offset]

-----------------------------------------------------------------------------
(* Block addressing, as every reader of a region computes it *)

\* uintE virtual_degree = *((uintE*)edge_start)
VirtualDegree(mem) == ReadU32(mem, 0)

\* nghs_start = edge_start + (num_blocks-1)*sizeof(uintE) + sizeof(uintE)
NghsStart(num_blocks) == (num_blocks - 1) * 4 + 4

\* block_offsets[j]
BlockOffset(mem, j) == ReadU32(mem, 4 + 4 * j)

\* finger = (i > 0) ? (edge_start + block_offsets[i-1]) : nghs_start
BlockFinger(mem, i) ==
  IF i > 0 THEN BlockOffset(mem, i - 1)
           ELSE NghsStart(NumBlocks(VirtualDegree(mem)))

\* start_offset = *((uintE*)finger)
BlockStart(mem, i) == ReadU32(mem, BlockFinger(mem, i))

\* end_offset = (i == num_blocks-1) ? degree : *((uintE*)(edge_start + block_offsets[i]))
BlockEnd(mem, i, deg) ==
  IF i = NumBlocks(VirtualDegree(mem)) - 1 THEN deg
  ELSE ReadU32(mem, BlockOffset(mem, i))

-----------------------------------------------------------------------------
(* decode.  The callback t returns false exactly on the edge indices in     *)
(* stop; every call made is appended to calls as <<source, ngh, wgh, id>>.  *)

Callback(stop, src, ngh, wgh, edgeID) == edgeID \notin stop

\* The edge loop of a block with the callback's result ignored.
RECURSIVE decodeEdgesNoBreak(_, _, _, _, _, _, _, _, _)
decodeEdgesNoBreak(mem, finger, src, ngh, edgeID, end_offset, isW, stop, calls) ==
  LET K(e) == decodeEdgesNoBreak(mem, e.finger, src, e.ngh, edgeID + 1, end_offset,
                                 isW, stop,
                                 Append(calls, <<src, e.ngh, e.wgh, edgeID>>))
  IN  IF edgeID < end_offset
        THEN K(eatNextPair(mem, finger, ngh, isW))
        ELSE [calls |-> calls, stopped |-> FALSE]

\* for (edgeID = start_offset+1; edgeID < end_offset; edgeID++)
RECURSIVE decodeEdges(_, _, _, _, _, _, _, _, _)
decodeEdges(mem, finger, src, ngh, edgeID, end_offset, isW, stop, calls) ==
  LET K(e) ==
        IF ~Callback(stop, src, e.ngh, e.wgh, edgeID)
          THEN [calls   |-> Append(calls, <<src, e.ngh, e.wgh, edgeID>>),
                stopped |-> TRUE]
          ELSE decodeEdges(mem, e.finger, src, e.ngh, edgeID + 1, end_offset, isW,
                           stop, Append(calls, <<src, e.ngh, e.wgh, edgeID>>))
  IN  IF edgeID < end_offset
        THEN K(eatNextPair(mem, finger, ngh, isW))
        ELSE [calls |-> calls, stopped |-> FALSE]

\* One block: if (start_offset < end_offset) { first edge; the other edges }.
\* stopped tells that the callback returned false in this block.
decodeOneBlock(mem, i, src, deg, isW, stop) ==
  LET start_offset == BlockStart(mem, i)
      K(f) ==
        IF ~Callback(stop, src, f.ngh, f.wgh, start_offset)
          THEN [calls |-> <<<<src, f.ngh, f.wgh, start_offset>>>>, stopped |-> TRUE]
          ELSE decodeEdges(mem, f.finger, src, f.ngh, start_offset + 1,
                           BlockEnd(mem, i, deg), isW, stop,
                           <<<<src, f.ngh, f.wgh, start_offset>>>>)
  IN  IF start_offset < BlockEnd(mem, i, deg)
        THEN K(eatFirstPair(mem, BlockFinger(mem, i) + 4, src, isW))
        ELSE [calls |-> <<>>, stopped |-> FALSE]

\* Unweighted decode, the sequential loop over the blocks after the first:
\* a false from the callback ends the block (end_offset = 0 / break) and the
\* loop goes on with the next block.  The result is the calls made from
\* block i on.
RECURSIVE decodeLaterBlocks(_, _, _, _, _)
decodeLaterBlocks(mem, i, src, deg, stop) ==
  IF i < NumBlocks(VirtualDegree(mem))
    THEN decodeOneBlock(mem, i, src, deg, FALSE, stop).calls
         \o decodeLaterBlocks(mem, i + 1, src, deg, stop)
    ELSE <<>>

\* decode<pbbs::empty> run sequentially: a false in the first chunk returns.
decodeUnweighted(mem, src, deg, stop) ==
  LET K(first) ==
        IF first.stopped THEN first.calls
        ELSE first.calls \o decodeLaterBlocks(mem, 1, src, deg, stop)
  IN  IF deg > 0 THEN K(decodeOneBlock(mem, 0, src, deg, FALSE, stop)) ELSE <<>>

\* decode<intE>: one loop over all blocks, a false from the callback returns.
\* The result is the calls made from block i on.
RECURSIVE decodeWeightedBlocks(_, _, _, _, _)
decodeWeightedBlocks(mem, i, src, deg, stop) ==
  LET K(r) ==
        IF r.stopped THEN r.calls
        ELSE r.calls \o decodeWeightedBlocks(mem, i + 1, src, deg, stop)
  IN  IF i < NumBlocks(VirtualDegree(mem))
        THEN K(decodeOneBlock(mem, i, src, deg, TRUE, stop))
        ELSE <<>>

decodeWeighted(mem, src, deg, stop) ==
  IF deg > 0 THEN decodeWeightedBlocks(mem, 0, src, deg, stop) ELSE <<>>

decode(mem, src, deg, isW, stop) ==
  IF isW THEN decodeWeighted(mem, src, deg, stop)
         ELSE decodeUnweighted(mem, src, deg, stop)

-----------------------------------------------------------------------------
(* get_ith_neighbor *)

\* pbbslib::binary_search(blocks_imap, i, lte) over blocks_f(j) = the end
\* offset of block j: the first j whose end is not <= i (num_blocks if none).
RECURSIVE binary_search(_, _, _, _)
binary_search(mem, deg, i, j) ==
  IF j < NumBlocks(VirtualDegree(mem)) /\ BlockEnd(mem, j, deg) <= i
    THEN binary_search(mem, deg, i, j + 1)
    ELSE j

\* for (edgeID = start + 1; edgeID < i; edgeID++)
RECURSIVE getIthLoop(_, _, _, _, _, _, _)
getIthLoop(mem, finger, ngh, wgh, edgeID, i, isW) ==
  LET K(e) == getIthLoop(mem, e.finger, e.ngh, e.wgh, edgeID + 1, i, isW)
  IN  IF edgeID < i THEN K(eatNextPair(mem, finger, ngh, isW))
      ELSE <<ngh, wgh>>

get_ith_neighbor(mem, src, deg, i, isW) ==
  LET finger == BlockFinger(mem, binary_search(mem, deg, i, 0))
      start  == ReadU32(mem, finger)
      K(f)   == IF i = start THEN <<f.ngh, f.wgh>>
                ELSE getIthLoop(mem, f.finger, f.ngh, f.wgh, start + 1, i, isW)
  IN  K(eatFirstPair(mem, finger + 4, src, isW))

-----------------------------------------------------------------------------
(* iter: the cursor over all edges of a region.                             *)

\* cur_chunk_degree = end_offset - start_offset
ChunkDegree(mem, c, deg) == BlockEnd(mem, c, deg) - BlockStart(mem, c)

\* iter::iter's search for the first chunk with start_offset < end_offset,
\* from chunk c on; num_blocks when the for loop ends without one.
RECURSIVE iterFirstChunk(_, _, _)
iterFirstChunk(mem, c, deg) ==
  IF c >= NumBlocks(VirtualDegree(mem)) THEN c
  ELSE IF BlockStart(mem, c) < BlockEnd(mem, c, deg) THEN c
  ELSE iterFirstChunk(mem, c + 1, deg)

\* iter::next() without its while loop: the next chunk, edges or not.
iterNextChunkNoSkip(mem, c, deg) == c

\* while (cur_chunk_degree == 0) { cur_chunk++; ... } of iter::next(), with
\* c the chunk after the current one; num_blocks when it runs past the last
\* chunk.
RECURSIVE iterNextChunk(_, _, _)
iterNextChunk(mem, c, deg) ==
  IF c >= NumBlocks(VirtualDegree(mem)) THEN c
  ELSE IF ChunkDegree(mem, c, deg) # 0 THEN c
  ELSE iterNextChunk(mem, c + 1, deg)

\* The cursor on the first edge of chunk c; past the last chunk it has read
\* outside the region.
iterAt(mem, c, deg, src, isW, total) ==
  LET K(f) == [finger |-> f.finger, cur_chunk |-> c,
               cur_chunk_degree |-> ChunkDegree(mem, c, deg),
               last_edge |-> <<f.ngh, f.wgh>>, read_in_block |-> 1,
               read_total |-> total, wild |-> FALSE]
  IN  IF c >= NumBlocks(VirtualDegree(mem))
        THEN [finger |-> 0, cur_chunk |-> c, cur_chunk_degree |-> 0,
              last_edge |-> <<0, 0>>, read_in_block |-> 1,
              read_total |-> total, wild |-> TRUE]
        ELSE K(eatFirstPair(mem, BlockFinger(mem, c) + 4, src, isW))

\* iter(_base, _degree, _src), for degree > 0
iter(mem, deg, src, isW) ==
  iterAt(mem, iterFirstChunk(mem, 0, deg), deg, src, isW, 1)

\* iter::next()
iter_next(mem, it, deg, src, isW) ==
  LET K(e) == [it EXCEPT !.finger = e.finger,
                         !.last_edge = <<e.ngh, e.wgh>>,
                         !.read_in_block = it.read_in_block + 1,
                         !.read_total = it.read_total + 1]
  IN  IF it.wild THEN [it EXCEPT !.read_total = it.read_total + 1]
      ELSE IF it.read_in_block = it.cur_chunk_degree
        THEN iterAt(mem, iterNextChunk(mem, it.cur_chunk + 1, deg), deg, src,
                    isW, it.read_total + 1)
        ELSE K(eatNextPair(mem, it.finger, it.last_edge[1], isW))

\* iter::has_next()
iter_has_next(it, deg) == it.read_total < deg

\* What cur() and next() return: the edge, or no edge after a read outside
\* the region.
iter_cur(it) == IF it.wild THEN <<>> ELSE it.last_edge

\* cur() once, then next() while has_next(): the pairs returned, in order.
RECURSIVE iterWalk(_, _, _, _, _, _)
iterWalk(mem, it, deg, src, isW, acc) ==
  IF iter_has_next(it, deg)
    THEN LET K(n) == iterWalk(mem, n, deg, src, isW, Append(acc, iter_cur(n)))
         IN  K(iter_next(mem, it, deg, src, isW))
    ELSE acc

-----------------------------------------------------------------------------
(* simple_iter, intersect and intersect_f.  A read that leaves the bytes of *)
(* the region has no defined value: the iterator is then wild.               *)

\* The num_blocks that the readers of a region compute, handed the current
\* degree deg > 0: all but simple_iter take it from the virtual degree that
\* the region stores, simple_iter from deg.
ReaderBlocks(mem, deg) ==
  LET num_blocks == 1 + (VirtualDegree(mem) - 1) \div PARALLEL_DEGREE
  IN  [iter              |-> num_blocks,
       decode            |-> num_blocks,
       decode_block_seq  |-> num_blocks,
       map_reduce        |-> num_blocks,
       get_ith_neighbor  |-> num_blocks,
       repack_sequential |-> num_blocks,
       repack            |-> num_blocks,
       pack              |-> num_blocks,
       filter_sequential |-> num_blocks,
       filter            |-> num_blocks,
       simple_iter       |-> 1 + (deg - 1) \div PARALLEL_DEGREE]

\* The offset after the number that starts at off, or -1 when its bytes run
\* past the end of the region.
RECURSIVE RunEnd(_, _)
RunEnd(mem, off) ==
  IF off \notin DOMAIN mem THEN 0 - 1
  ELSE IF LAST_BIT_SET(mem[off]) THEN RunEnd(mem, off + 1)
  ELSE off + 1

\* The neighbor at off, and its weight, lie in the region.
PairInRegion(mem, off, isW) ==
  LET K(e) == e # 0 - 1 /\ (isW => RunEnd(mem, e) # 0 - 1)
  IN  K(RunEnd(mem, off))

WildIter == [finger |-> 0, ngh |-> 0, wgh |-> 0, proc |-> 0, cur_chunk |-> 0,
             wild |-> TRUE]

\* simple_iter(_base, _degree, _src), for degree > 0:
\* num_blocks = 1 + (degree - 1) / PARALLEL_DEGREE;
\* finger = base + (num_blocks - 1) * sizeof(uintE) + 2 * sizeof(uintE);
\* last_edge = the first edge; proc = 1.
simple_iter(mem, deg, src, isW) ==
  LET finger == (ReaderBlocks(mem, deg).simple_iter - 1) * 4 + 2 * 4
      K(f)   == [finger |-> f.finger, ngh |-> f.ngh, wgh |-> f.wgh, proc |-> 1,
                 cur_chunk |-> 0, wild |-> FALSE]
  IN  IF PairInRegion(mem, finger, isW)
        THEN K(eatFirstPair(mem, finger, src, isW))
        ELSE WildIter

\* simple_iter::next(): after PARALLEL_DEGREE edges of a block, skip the
\* next block's start index and read a first edge; else read a difference.
simple_next(mem, it, src, isW) ==
  LET First(f) == [finger |-> f.finger, ngh |-> f.ngh, wgh |-> f.wgh, proc |-> 1,
                   cur_chunk |-> it.cur_chunk + 1, wild |-> FALSE]
      Other(e) == [finger |-> e.finger, ngh |-> e.ngh, wgh |-> e.wgh,
                   proc |-> it.proc + 1, cur_chunk |-> it.cur_chunk,
                   wild |-> FALSE]
  IN  IF it.wild THEN it
      ELSE IF it.proc = PARALLEL_DEGREE
        THEN IF PairInRegion(mem, it.finger + 4, isW)
               THEN First(eatFirstPair(mem, it.finger + 4, src, isW))
               ELSE WildIter
        ELSE IF PairInRegion(mem, it.finger, isW)
               THEN Other(eatNextPair(mem, it.finger, it.ngh, isW))
               ELSE WildIter

\* e1 < e2 for uintE values: a number below 0 in the model is that number
\* plus 2^32.
Lt32U(e1, e2) == IF (e1 < 0) = (e2 < 0) THEN e1 < e2 ELSE e2 < 0

\* simple_iter::has_next(): (cur_chunk * PARALLEL_DEGREE + proc) < degree
simple_has_next(it, deg) == it.cur_chunk * PARALLEL_DEGREE + it.proc < deg

\* 1 for a next() made on an iterator whose has_next() is false.
PastEnd(it, deg) == IF simple_has_next(it, deg) THEN 0 ELSE 1

\* while (i < l1_size && j < l2_size) of intersect_f.  The value of a next()
\* made after the last edge of a list is not used; past counts those calls.
RECURSIVE intersectLoop(_, _, _, _, _, _, _, _, _, _, _, _, _, _)
intersectLoop(l1, l2, it_1, it_2, i, j, l1_size, l2_size, l1_src, l2_src, isW, ct, calls, past) ==
  IF i < l1_size /\ j < l2_size
    THEN IF it_1.wild \/ it_2.wild
           THEN [ct |-> ct, calls |-> calls, wild |-> TRUE, past |-> past]
         ELSE IF it_1.ngh = it_2.ngh
           THEN intersectLoop(l1, l2, simple_next(l1, it_1, l1_src, isW),
                              simple_next(l2, it_2, l2_src, isW), i + 1, j + 1,
                              l1_size, l2_size, l1_src, l2_src, isW, ct + 1,
                              Append(calls, <<l1_src, l2_src, it_1.ngh>>),
                              past + PastEnd(it_1, l1_size) + PastEnd(it_2, l2_size))
         ELSE IF Lt32U(it_1.ngh, it_2.ngh)
           THEN intersectLoop(l1, l2, simple_next(l1, it_1, l1_src, isW), it_2,
                              i + 1, j, l1_size, l2_size, l1_src, l2_src, isW,
                              ct, calls, past + PastEnd(it_1, l1_size))
           ELSE intersectLoop(l1, l2, it_1, simple_next(l2, it_2, l2_src, isW),
                              i, j + 1, l1_size, l2_size, l1_src, l2_src, isW,
                              ct, calls, past + PastEnd(it_2, l2_size))
    ELSE [ct |-> ct, calls |-> calls, wild |-> FALSE, past |-> past]

\* intersect_f<W>(l1, l2, l1_size, l2_size, l1_src, l2_src, f): the count
\* returned and the calls f(l1_src, l2_src, e1) made, in order.
intersect_f(l1, l2, l1_size, l2_size, l1_src, l2_src, isW) ==
  IF l1_size = 0 \/ l2_size = 0
    THEN [ct |-> 0, calls |-> <<>>, wild |-> FALSE, past |-> 0]
    ELSE intersectLoop(l1, l2, simple_iter(l1, l1_size, l1_src, isW),
                       simple_iter(l2, l2_size, l2_src, isW), 0, 0, l1_size,
                       l2_size, l1_src, l2_src, isW, 0, <<>>, 0)

\* intersect<W>(l1, l2, l1_size, l2_size, l1_src, l2_src): the same loop
\* without the call of f.
intersect(l1, l2, l1_size, l2_size, l1_src, l2_src, isW) ==
  LET K(r) == [ct |-> r.ct, wild |-> r.wild, past |-> r.past]
  IN  K(intersect_f(l1, l2, l1_size, l2_size, l1_src, l2_src, isW))

-----------------------------------------------------------------------------
(* pack and repack.  A predicate is a record; PredHolds is pred(source,     *)
(* ngh, wgh).                                                              *)

PredHolds(p, src, ngh, wgh) ==
  CASE p.k = "mod"  -> ngh % p.a = p.b
    [] p.k = "lt"   -> ngh < p.a
    [] p.k = "wpos" -> wgh > 0
    [] p.k = "none" -> FALSE
    [] OTHER        -> TRUE

\* The edges after the first of block [start_offset, end_offset), appended to
\* acc as pairs, and the finger after the last.
RECURSIVE readEdges(_, _, _, _, _, _, _)
readEdges(mem, finger, ngh, edgeID, end_offset, isW, acc) ==
  LET K(e) == readEdges(mem, e.finger, e.ngh, edgeID + 1, end_offset, isW,
                        Append(acc, <<e.ngh, e.wgh>>))
  IN  IF edgeID < end_offset THEN K(eatNextPair(mem, finger, ngh, isW))
      ELSE [edges |-> acc, finger |-> finger]

\* The edges of block i as pairs, and the finger after them (after the block
\* header when the block is empty).
readBlock(mem, i, src, deg, isW) ==
  LET K(f) == readEdges(mem, f.finger, f.ngh, BlockStart(mem, i) + 1,
                        BlockEnd(mem, i, deg), isW, <<<<f.ngh, f.wgh>>>>)
  IN  IF BlockStart(mem, i) < BlockEnd(mem, i, deg)
        THEN K(eatFirstPair(mem, BlockFinger(mem, i) + 4, src, isW))
        ELSE [edges |-> <<>>, finger |-> BlockFinger(mem, i) + 4]

\* The edges es[j..to] (1-based) written after a first edge: compressEdge of
\* the difference, then the weight.
RECURSIVE writeEdges(_, _, _, _, _, _)
writeEdges(w, es, j, to, last_ngh, isW) ==
  IF j <= to
    THEN writeEdges(compressWeight(compressEdge(w, es[j][1] - last_ngh),
                                   es[j][2], isW),
                    es, j + 1, to, es[j][1], isW)
    ELSE w

\* writeBlockBody writing a weight after every edge, whatever W is.
writeBlockBodyWeighted(w, src, es, from, to, isW) ==
  writeEdges(compressWeight(compressFirstEdge(w, src, es[from][1]),
                            es[from][2], TRUE),
             es, from + 1, to, es[from][1], TRUE)

\* Edges es[from..to] written as one block body: the first with
\* compressFirstEdge relative to the source, the others as differences.
writeBlockBody(w, src, es, from, to, isW) ==
  writeEdges(compressWeight(compressFirstEdge(w, src, es[from][1]),
                            es[from][2], isW),
             es, from + 1, to, es[from][1], isW)

SelectEdges(p, src, es) == SelectSeq(es, LAMBDA e : PredHolds(p, src, e[1], e[2]))

\* packBlock without step C: the block's bytes are left as they were.
packBlockNoRecompress(p, mem, i, src, deg, isW) ==
  LET K(blk) == [mem |-> mem, ct |-> Len(SelectEdges(p, src, blk.edges)),
                offset    |-> 0,
                final_off |-> blk.finger - BlockFinger(mem, i)]
  IN  K(readBlock(mem, i, src, deg, isW))

\* The body of pack's first par_for for block i: A) uncompress and filter into
\* tmp, B) block_cts[i] = ct, C) recompress inside the block when
\* 0 < ct < block_deg.  offset is the number of bytes written after the block
\* header; final_off is the distance from the block header to the finger after
\* the last edge read.
packBlock(p, mem, i, src, deg, isW) ==
  LET finger    == BlockFinger(mem, i)
      block_deg == BlockEnd(mem, i, deg) - BlockStart(mem, i)
      K(blk) ==
        LET K2(tmp) ==
              LET K3(wr) == [mem |-> wr.mem, ct |-> Len(tmp),
                             offset    |-> wr.off - (finger + 4),
                             final_off |-> blk.finger - finger]
              IN  K3(IF Len(tmp) > 0 /\ Len(tmp) < block_deg
                       THEN writeBlockBody([mem |-> mem, off |-> finger + 4], src,
                                           tmp, 1, Len(tmp), isW)
                       ELSE [mem |-> mem, off |-> finger + 4])
        IN  K2(SelectEdges(p, src, blk.edges))
  IN  K(readBlock(mem, i, src, deg, isW))

\* par_for(0, num_blocks, ...) of pack's first phase.  Each block rewrites
\* bytes of its own body only, so the blocks are taken in index order.
RECURSIVE packBlocks(_, _, _, _, _, _, _)
packBlocks(p, mem, i, src, deg, isW, block_cts) ==
  LET Next(r) == Eager(r, packBlocks(p, r.mem, i + 1, src, deg, isW,
                                     Append(block_cts, r.ct)))
  IN  IF i < NumBlocks(VirtualDegree(mem))
        THEN Next(packBlock(p, mem, i, src, deg, isW))
        ELSE [mem |-> mem, block_cts |-> block_cts]

\* The same par_for, keeping for every block its header's position, the
\* offset it has written up to and its final_off.
RECURSIVE packSpans(_, _, _, _, _, _, _)
packSpans(p, mem, i, src, deg, isW, spans) ==
  LET Next(r) == Eager(r, packSpans(p, r.mem, i + 1, src, deg, isW,
                                    Append(spans, [finger    |-> BlockFinger(mem, i),
                                                   offset    |-> r.offset,
                                                   final_off |-> r.final_off])))
  IN  IF i < NumBlocks(VirtualDegree(mem))
        THEN Next(packBlock(p, mem, i, src, deg, isW))
        ELSE spans

\* pbbslib::scan_add_inplace: entry i becomes the sum of the entries before
\* it.  scan_add(cts, i) is the sum of the first i entries of cts.
RECURSIVE scan_add(_, _)
scan_add(cts, i) == IF i = 0 THEN 0 ELSE scan_add(cts, i - 1) + cts[i]

\* *block_deg_ptr = scan_cts[i] for every block
RECURSIVE packHeaders(_, _, _)
packHeaders(mem, i, block_cts) ==
  LET Next(m) == Eager(m, packHeaders(m, i + 1, block_cts))
  IN  IF i < Len(block_cts)
        THEN Next(WriteU32(mem, BlockFinger(mem, i), scan_add(block_cts, i)))
        ELSE mem

\* U[edgeID] = edge for edgeID = start_offset, start_offset + 1, ...
\* U is kept 1-based: U[j + 1] is the C++ U[j].
RECURSIVE storeEdges(_, _, _, _)
storeEdges(U, start_offset, es, k) ==
  IF k <= Len(es)
    THEN storeEdges([U EXCEPT ![start_offset + k] = es[k]], start_offset, es, k + 1)
    ELSE U

\* repack step 1: copy the live edges of every block into U, block i filling
\* U[start_offset .. end_offset).
RECURSIVE repackCopy(_, _, _, _, _, _)
repackCopy(mem, i, src, deg, isW, U) ==
  LET Next(U2) == Eager(U2, repackCopy(mem, i + 1, src, deg, isW, U2))
  IN  IF i < NumBlocks(VirtualDegree(mem))
        THEN Next(storeEdges(U, BlockStart(mem, i),
                             readBlock(mem, i, src, deg, isW).edges, 1))
        ELSE U

\* repack step 3: offs[i], the bytes of new block i (4 for its header, then
\* its edges), measured by compressing into a scratch buffer.
repackBytes(U, i, src, deg, isW) ==
  LET start == i * PARALLEL_DEGREE
      end   == start + Min(PARALLEL_DEGREE, deg - start)
  IN  4 + writeBlockBody([mem |-> [x \in 0 .. 12 * PARALLEL_DEGREE |-> 0],
                          off |-> 0],
                         src, U, start + 1, end, isW).off

\* repack step 5 for the new blocks i, i + 1, ...: block offset, cumulative
\* start index, edges.  offs[i + 1] is the C++ offs[i] before the scan.
RECURSIVE repackWrite(_, _, _, _, _, _, _, _)
repackWrite(mem, U, i, new_blocks, src, deg, isW, offs) ==
  LET start  == i * PARALLEL_DEGREE
      end    == start + Min(PARALLEL_DEGREE, deg - start)
      finger == NghsStart(new_blocks) + scan_add(offs, i)
      hdr    == WriteU32(IF i > 0 THEN WriteU32(mem, 4 + 4 * (i - 1), finger)
                                  ELSE mem,
                         finger, start)
      Next(r) == Eager(r, repackWrite(r.mem, U, i + 1, new_blocks, src, deg, isW,
                                      offs))
  IN  IF i < new_blocks
        THEN Next(writeBlockBody([mem |-> hdr, off |-> finger + 4], src, U,
                                 start + 1, end, isW))
        ELSE mem

repack(mem, src, deg, isW) ==
  LET K(U) == repackWrite(WriteU32(mem, 0, deg), U, 0, NumBlocks(deg), src, deg,
                          isW,
                          [i \in 1 .. NumBlocks(deg) |->
                             repackBytes(U, i - 1, src, deg, isW)])
  IN  IF deg > 0
        THEN K(repackCopy(mem, 0, src, deg, isW, [j \in 1 .. deg |-> <<0, 0>>]))
        ELSE mem

\* RepackTriggered with <= for <.
RepackTriggeredAtTenth(deg_remaining, virtual_degree) ==
  deg_remaining <= virtual_degree \div 10

\* if (deg_remaining < (virtual_degree / 10)) repack(...)
RepackTriggered(deg_remaining, virtual_degree) ==
  deg_remaining < virtual_degree \div 10

\* Returns the region and deg_remaining.
pack(p, mem, src, deg, isW) ==
  LET K(r1) ==
        LET K2(m2) ==
              LET K3(deg_remaining) ==
                    [mem |-> IF RepackTriggered(deg_remaining, VirtualDegree(mem))
                               THEN repack(m2, src, deg_remaining, isW)
                               ELSE m2,
                     deg |-> deg_remaining]
              IN  K3(scan_add(r1.block_cts, Len(r1.block_cts)))
        IN  K2(packHeaders(r1.mem, 0, r1.block_cts))
  IN  K(packBlocks(p, mem, 0, src, deg, isW, <<>>))

\* size_t block_cts_stack[100]; block_cts = (num_blocks > 100) ?
\* new_array_no_init<size_t>(num_blocks + 1) : block_cts_stack.  The entries
\* pack's counts have on the stack, 100 in the code, scaled down as
\* PARALLEL_DEGREE is.
BlockCtsStack == 22

\* block_cts[num_blocks] = 0 and the scan over num_blocks + 1 entries write
\* entry num_blocks.  With num_blocks = BlockCtsStack that entry is one past
\* block_cts_stack: the write lands on whatever object of pack's frame lies
\* behind the array, which the build decides: none of pack's objects, the
\* size_t num_blocks, or one of the pointers nghs_start and block_offsets.
Overrun(mem) ==
  IF NumBlocks(VirtualDegree(mem)) = BlockCtsStack
    THEN {"none", "num_blocks", "pointer"}
    ELSE {"none"}

\* pack when block_cts[num_blocks] = 0 has set num_blocks to 0, after the
\* first par_for: the scan runs over one entry and returns block_cts[0], the
\* second par_for writes no header, and the test for repack is made with
\* that deg_remaining.
packNumBlocksLost(p, mem, src, deg, isW) ==
  LET K(r1) ==
        LET K3(deg_remaining) ==
              [mem |-> IF RepackTriggered(deg_remaining, VirtualDegree(mem))
                         THEN repack(r1.mem, src, deg_remaining, isW)
                         ELSE r1.mem,
               deg |-> deg_remaining,
               pc  |-> "encoded"]
        IN  K3(scan_add(r1.block_cts, 1))
  IN  K(packBlocks(p, mem, 0, src, deg, isW, <<>>))

\* pack when the overrun has replaced nghs_start or block_offsets by 0 and
\* then by the scan's total: the second par_for writes a block header through
\* that value, an address outside the region, and the process is ended by
\* the fault.
packPointerLost(p, mem, src, deg, isW) ==
  LET K(r1) == [mem |-> r1.mem, deg |-> deg, pc |-> "fault"]
  IN  K(packBlocks(p, mem, 0, src, deg, isW, <<>>))

\* pack with the outcome hit of the write of entry num_blocks.
packInFrame(hit, p, mem, src, deg, isW) ==
  LET K(r) == [mem |-> r.mem, deg |-> r.deg, pc |-> "encoded"]
  IN  CASE hit = "num_blocks" -> packNumBlocksLost(p, mem, src, deg, isW)
        [] hit = "pointer"    -> packPointerLost(p, mem, src, deg, isW)
        [] OTHER              -> K(pack(p, mem, src, deg, isW))

-----------------------------------------------------------------------------
(* The inputs of the codec *)

\* Neighbor ids of the short lists: differences of 1 byte, of 2 bytes as a
\* first edge only (64..127), of 2 and of 3 bytes.
NghUniverse == {1, 2, 70, 200, 17000}

\* Sources below, between and equal to neighbor ids (negative first edges).
SourceSet == {0, 70}

RECURSIVE SortedSeq(_)
SortedSeq(S) ==
  IF S = {} THEN <<>>
  ELSE LET m == CHOOSE x \in S : \A y \in S : x <= y
       IN  <<m>> \o SortedSeq(S \ {m})

ShortLists ==
  {SortedSeq(S) : S \in {T \in SUBSET NghUniverse :
                           Cardinality(T) >= 1 /\ Cardinality(T) <= MaxShortDeg}}

\* 60, 61, 62, ... : a run of unit differences around the one-byte limit of
\* a first edge.
LongList(len) == [k \in 1 .. len |-> 59 + k]

NghLists == ShortLists \cup {LongList(LongDeg), LongList(2 * LongDeg)}

\* A list of three blocks that the predicate ngh % 13 = 5 leaves with a full
\* block, an empty block and a block of one edge.
GapLists == {<<5, 18, 20, 21, 31, 40>>}

\* The length of the longest list decoded in parallel.
ParDeg == 7

\* The lists decoded in parallel: of two blocks and of more.
ParLists == {<<1, 2, 70>>, LongList(ParDeg)} \cup GapLists

\* The lists whose regions have BlockCtsStack blocks: the shortest.
WideLists == {LongList((BlockCtsStack - 1) * PARALLEL_DEGREE + 1)}

\* Weights of the i-th edge: unit weights, or signed 32-bit weights that are
\* zero, negative, and of one and two bytes.
WeightOf(pattern, i) ==
  CASE pattern = "unit" -> 0
    [] pattern = "one"  -> 1
    [] OTHER            -> IF i % 2 = 1 THEN 40 * (i - 1) ELSE 0 - 40 * (i - 1)

WeightPatterns == {"unit", "one", "alt"}

PredSet ==
  { [k |-> "mod", a |-> 2, b |-> 1], [k |-> "mod", a |-> 13, b |-> 5],
    [k |-> "lt", a |-> 71, b |-> 0], [k |-> "lt", a |-> 62, b |-> 0],
    [k |-> "wpos", a |-> 0, b |-> 0],
    [k |-> "none", a |-> 0, b |-> 0] }

\* Bytes reserved for a region of degree d.
RegionSize(d) == 8 * NumBlocks(d) + 12 * d + 16

NoOut == [op |-> "none", arg |-> {}, res |-> <<>>]

-----------------------------------------------------------------------------
(* The codec as a state machine *)

\* The arguments of sequentialCompressEdgeSet for the neighbor lists of Lists.
CodecInputs(Lists) ==
  /\ cpc = "input"
  /\ source \in SourceSet
  /\ \E nghs \in Lists, wp \in WeightPatterns :
       /\ weighted = (wp # "unit")
       /\ input = [i \in 1 .. Len(nghs) |-> <<nghs[i], WeightOf(wp, i)>>]
  /\ degree = Len(input)
  /\ edgeArray = [x \in 0 .. RegionSize(Len(input)) - 1 |-> 255]
  /\ preds = <<>>
  /\ out = NoOut
  /\ par_tasks = <<>>
  /\ par_calls = <<>>

CodecInit == CodecInputs(NghLists)

\* The regions walked with the cursor.
CodecInitIter == CodecInputs(ShortLists \cup {LongList(LongDeg)} \cup GapLists)

\* The regions decoded in parallel.
CodecInitPar == CodecInputs(ParLists)

\* The regions of BlockCtsStack blocks.
CodecInitWide == CodecInputs(WideLists)

\* sequentialCompressEdgeSet<W>(edgeArray, 0, degree, source, it)
Compress ==
  /\ cpc = "input"
  /\ cpc' = "encoded"
  /\ edgeArray' = sequentialCompressEdgeSet(edgeArray, 0, degree, source, input,
                                            weighted).mem
  /\ UNCHANGED <<source, degree, weighted, input, preds, out, par_tasks,
                 par_calls>>
  /\ UNCHANGED nonCodecVars

\* degree = pack<W>(pred, edge_start, source, degree, tmp_space)
Pack ==
  /\ cpc = "encoded"
  /\ Len(preds) < MaxPacks
  /\ \E p \in PredSet, hit \in Overrun(edgeArray) :
       LET K(r) == /\ edgeArray' = r.mem
                   /\ degree' = r.deg
                   /\ cpc' = r.pc
           IN  /\ K(packInFrame(hit, p, edgeArray, source, degree, weighted))
               /\ preds' = Append(preds, p)
               /\ out' = [op |-> "pack", arg |-> {}, res |-> <<>>]
  /\ UNCHANGED <<source, weighted, input, par_tasks, par_calls>>
  /\ UNCHANGED nonCodecVars

\* decode<W>(t, edge_start, source, degree, false) with a callback that
\* returns false on the edge indices in stop
Decode ==
  /\ cpc = "encoded"
  /\ \E stop \in {S \in SUBSET (0 .. Min(degree, MaxProbe) - 1) : Cardinality(S) <= 2} :
       out' = [op |-> "decode", arg |-> stop,
               res |-> decode(edgeArray, source, degree, weighted, stop)]
  /\ UNCHANGED <<cpc, edgeArray, source, degree, weighted, input, preds,
                 par_tasks, par_calls>>
  /\ UNCHANGED nonCodecVars

\* get_ith_neighbor<W>(edge_start, source, degree, i)
GetIth ==
  /\ cpc = "encoded"
  /\ \E i \in 0 .. Min(degree, MaxProbe) - 1 :
       out' = [op |-> "get_ith", arg |-> {i},
               res |-> <<get_ith_neighbor(edgeArray, source, degree, i, weighted)>>]
  /\ UNCHANGED <<cpc, edgeArray, source, degree, weighted, input, preds,
                 par_tasks, par_calls>>
  /\ UNCHANGED nonCodecVars

\* The second list of an intersection: its source and its neighbors, which
\* share some or none of their ids with the lists of NghLists.
OtherSources == {3}
OtherLists == {<<2, 70, 17000>>, <<61, 70, 75, 200>>, <<5>>}

\* The region sequentialCompressEdgeSet writes for the list nghs of src.
OtherRegion(nghs, src, isW) ==
  sequentialCompressEdgeSet([x \in 0 .. RegionSize(Len(nghs)) - 1 |-> 255], 0,
                            Len(nghs), src,
                            [i \in 1 .. Len(nghs) |-> <<nghs[i], 1>>], isW).mem

\* intersect<W>(edge_start, l2, degree, l2_size, source, l2_src) and
\* intersect_f<W>(..., f) of the region with a freshly written one.
Intersect ==
  /\ cpc = "encoded"
  /\ \E nghs \in OtherLists, l2_src \in OtherSources :
       LET l2 == OtherRegion(nghs, l2_src, weighted)
       IN  out' = [op |-> "intersect", arg |-> {nghs[i] : i \in 1 .. Len(nghs)},
                   res |-> <<intersect(edgeArray, l2, degree, Len(nghs), source,
                                       l2_src, weighted),
                             intersect_f(edgeArray, l2, degree, Len(nghs),
                                         source, l2_src, weighted),
                             l2_src>>]
  /\ UNCHANGED <<cpc, edgeArray, source, degree, weighted, input, preds,
                 par_tasks, par_calls>>
  /\ UNCHANGED nonCodecVars

CodecNext == Compress \/ Pack \/ Decode \/ GetIth

\* it = iter<W>(edge_start, degree, source); it.cur(); then it.next() while
\* it.has_next()
Iterate ==
  /\ cpc = "encoded"
  /\ degree > 0
  /\ LET K(it) == out' = [op |-> "iter", arg |-> {},
                          res |-> iterWalk(edgeArray, it, degree, source,
                                           weighted, <<iter_cur(it)>>)]
     IN  K(iter(edgeArray, degree, source, weighted))
  /\ UNCHANGED <<cpc, edgeArray, source, degree, weighted, input, preds,
                 par_tasks, par_calls>>
  /\ UNCHANGED nonCodecVars

\* parallel_for(0, num_blocks, ...): a task for the first block as well.
ParBlocksFromZero(num_blocks) ==
  IF num_blocks > 2 THEN 0 .. num_blocks - 1 ELSE {}

\* parallel_for(1, num_blocks, ...) of decode: the blocks that get a task.
\* With two blocks or fewer the blocks after the first are read in a loop.
ParBlocks(num_blocks) ==
  IF num_blocks > 2 THEN 1 .. num_blocks - 1 ELSE {}

\* The calls the task of block i makes when the callback returns true.
TaskCalls(i) == decodeOneBlock(edgeArray, i, source, degree, FALSE, {}).calls

\* decode<pbbs::empty>(t, edge_start, source, degree, true) with a callback
\* that returns true: the first chunk and, with two blocks or fewer, the for
\* loop over the others, then the fork of the tasks.
DecodeParStart ==
  /\ cpc = "encoded"
  /\ ~weighted
  /\ degree > 0
  /\ cpc' = "decoding"
  /\ LET K(num_blocks) ==
           /\ par_tasks' = [i \in ParBlocks(num_blocks) |-> 0]
           /\ par_calls' = IF ParBlocks(num_blocks) = {}
                              THEN decode(edgeArray, source, degree, FALSE, {})
                              ELSE TaskCalls(0)
     IN  K(NumBlocks(VirtualDegree(edgeArray)))
  /\ UNCHANGED <<edgeArray, source, degree, weighted, input, preds, out>>
  /\ UNCHANGED nonCodecVars

\* One call t(source, ngh, wgh, edgeID) of the task of block i.
DecodeParStep(i) ==
  /\ cpc = "decoding"
  /\ par_tasks[i] < Len(TaskCalls(i))
  /\ par_calls' = Append(par_calls, TaskCalls(i)[par_tasks[i] + 1])
  /\ par_tasks' = [par_tasks EXCEPT ![i] = par_tasks[i] + 1]
  /\ UNCHANGED <<cpc, edgeArray, source, degree, weighted, input, preds, out>>
  /\ UNCHANGED nonCodecVars

\* The join of parallel_for: every task has returned, decode returns.
DecodeParJoin ==
  /\ cpc = "decoding"
  /\ \A i \in DOMAIN par_tasks : par_tasks[i] = Len(TaskCalls(i))
  /\ cpc' = "encoded"
  /\ out' = [op |-> "decode_parallel", arg |-> {}, res |-> par_calls]
  /\ par_tasks' = <<>>
  /\ par_calls' = <<>>
  /\ UNCHANGED <<edgeArray, source, degree, weighted, input, preds>>
  /\ UNCHANGED nonCodecVars

\* The runs that write a region, pack it and decode it in parallel.
DecodeParNext ==
  \/ Compress
  \/ Pack
  \/ DecodeParStart
  \/ \E i \in DOMAIN par_tasks : DecodeParStep(i)
  \/ DecodeParJoin

\* The runs that write a region, pack it and walk it with the cursor.
IterNext == Compress \/ Pack \/ Iterate

\* The runs that write a region, pack it and intersect it.
IntersectNext == Compress \/ Pack \/ Intersect

\* No region: the state of the codec's variables while another part runs.
CodecOff ==
  /\ cpc = "off" /\ edgeArray = <<>> /\ source = 0 /\ degree = 0
  /\ weighted = FALSE /\ input = <<>> /\ preds = <<>> /\ out = NoOut
  /\ par_tasks = <<>> /\ par_calls = <<>>

-----------------------------------------------------------------------------
(* The block allocator (src/pbbslib/block_allocator.h).  Blocks are the     *)
(* numbers 1, 2, 3, ... in the order aligned_alloc hands them out; a slab of *)
(* n blocks is n consecutive numbers.                                        *)

\* block_allocator::thread_count = num_workers(): the modelled runs have two
\* workers, each with its own worker_id().
thread_count == 2
\* The number of blocks the workers ask for in a run: one per alloc call,
\* those of its lists per reserve call.
MaxAllocs == 6

Workers == 0 .. thread_count - 1

NULL == 0
\* The content of memory the allocator has not written: a fresh slab, the
\* bytes of a block its holder has used, an unset field.
JUNK == 0 - 1

\* The constructor's <<list_length_, max_blocks_, blocks_count>> tried, with
\* lists of two blocks, the shortest for which list_length + 1 and
\* 2 * list_length differ.  max_blocks_ has room for the lists of reserve(0)
\* and for one more list, with blocks_count for fewer blocks, as many or more.
Constructions ==
  {<<2, 2 * (thread_count + 1), 0>>,
   <<2, 2 * (thread_count + 1), 1>>,
   <<2, 2 * (thread_count + 1), 2 * 2 + 1>>}

\* The constructions with lists of one block and of two, and blocks_count 0.
ListConstructions ==
  {<<1, 1 * (thread_count + 1), 0>>,
   <<2, 2 * (thread_count + 1), 0>>}

\* The n of the reserve(n) calls made after construction.
ReserveCounts == {0}

\* allocate_blocks's test with >= for >.
TooManyAtCap(b) == b >= max_blocks

\* if (blocks_allocated > max_blocks) { fprintf(...); exit(1); }
TooMany(b) == b > max_blocks

\* concurrent_stack<T>: push, pop and size take effect one at a time; the top
\* of the stack is the head of the sequence.
stack_push(st, x) == <<x>> \o st
stack_top(st) == Head(st)
stack_pop(st) == Tail(st)
stack_size(st) == Len(st)

\* size_t num_lists = thread_count + ceil(n / (double)list_length)
NumLists(n) == thread_count + (n + list_length - 1) \div list_length

\* reserve's num_lists in the constructor, which has set list_length to len.
NumListsOf(len, n) == thread_count + (n + len - 1) \div len

\* initialize_list(start) on the memory nx: chains list_length consecutive
\* blocks, the last with next = NULL.
initialize_list(nx, start) ==
  [b \in DOMAIN nx |->
     IF b \in start .. start + list_length - 2 THEN b + 1
     ELSE IF b = start + list_length - 1 THEN NULL
     ELSE nx[b]]

\* aligned_alloc of a slab of n blocks: the blocks after those handed out so
\* far, with unset content.
aligned_alloc(nx, n) ==
  [b \in 1 .. Len(nx) + n |-> IF b <= Len(nx) THEN nx[b] ELSE JUNK]

\* size_t free_blocks = global_stack.size()*list_length;
\* for (i < thread_count) free_blocks += local_lists[i].sz;
\* return blocks_allocated - free_blocks;
RECURSIVE SumSz(_, _)
SumSz(ll, i) == IF i = 0 THEN 0 ELSE SumSz(ll, i - 1) + ll[i - 1].sz

num_used_blocks ==
  blocks_allocated
    - (stack_size(global_stack) * list_length + SumSz(local_lists, thread_count))

\* The locals of a worker that is in no allocate_blocks call.
NoCall == [start |-> NULL, num_blocks |-> 0, lists |-> {}]

\* The state of block_allocator(block_size, blocks_count, list_length,
\* max_blocks) at its call reserve(blocks_count), made by worker 0:
\* blocks_allocated = 0; list_length = list_length_; max_blocks = max_blocks_;
\* the call is about to enter allocate_blocks(list_length*num_lists).
AllocInputs(Cs) ==
  /\ \E c \in Cs :
       /\ list_length = c[1]
       /\ max_blocks = c[2]
       /\ areg = [id \in Workers |->
                    IF id = 0 THEN [start |-> NULL,
                                    num_blocks |-> c[1] * NumListsOf(c[1], c[3]),
                                    lists |-> 0 .. NumListsOf(c[1], c[3]) - 1]
                              ELSE NoCall]
  /\ apc = [id \in Workers |-> IF id = 0 THEN "allocate" ELSE "idle"]
  /\ blocks_allocated = 0
  /\ exited = FALSE
  /\ global_stack = <<>>
  /\ pool_roots = <<>>
  /\ next = <<>>
  /\ local_lists = [id \in Workers |-> [sz |-> 0, head |-> NULL, mid |-> JUNK]]
  /\ held = <<>>
  /\ acalls = 0
  /\ aout = [op |-> "none", res |-> 0]

AllocInit == AllocInputs(Constructions)

\* The allocators with lists of one block and of two.
AllocInitLists == AllocInputs(ListConstructions)

\* The constructor has returned: the workers call alloc, free and reserve on
\* a constructed allocator only.  No call of theirs has been made while
\* acalls = 0, so that worker 0 is then busy in the constructor's reserve.
Constructed == acalls > 0 \/ apc[0] = "idle"

\* Blocks an alloc has returned and no free has taken back.
Outstanding == {b \in DOMAIN held : held[b] > 0}

NoAOut == [op |-> "none", res |-> 0]

\* PopLocal without head = head->next.
PopLocalNoAdvance(ll, refill, lst) ==
  LET hd == IF refill THEN lst ELSE ll.head
      sz == IF refill THEN list_length ELSE ll.sz
  IN  [ll EXCEPT !.sz = sz - 1, !.head = hd]

\* The worker's list after local_lists[id].head = lst; local_lists[id].sz =
\* list_length (when refill) and then local_lists[id].sz--; head = head->next.
PopLocal(ll, refill, lst) ==
  LET hd == IF refill THEN lst ELSE ll.head
      sz == IF refill THEN list_length ELSE ll.sz
  IN  [ll EXCEPT !.sz = sz - 1, !.head = next[hd]]

\* The caller of alloc receives p.  It owns the block's bytes from then on:
\* the next field is no longer the allocator's.
Return(p) ==
  /\ held' = [b \in 1 .. Len(next) |->
                (IF b \in DOMAIN held THEN held[b] ELSE 0)
                + (IF b = p THEN 1 ELSE 0)]
  /\ next' = [next EXCEPT ![p] = JUNK]

\* alloc(), worker id.  The local list is touched by its worker only, so the
\* steps of a call are the accesses to what the workers share.  This step is
\* the whole call when the local list has a block or global_stack.pop()
\* yields a list; when it yields none the call goes on to allocate_blocks.
Alloc(id) ==
  /\ ~exited /\ Constructed /\ apc[id] = "idle"
  /\ acalls < MaxAllocs
  /\ acalls' = acalls + 1
  /\ IF local_lists[id].sz # 0
       THEN /\ local_lists' = [local_lists EXCEPT
                                 ![id] = PopLocal(@, FALSE, NULL)]
            /\ Return(local_lists[id].head)
            /\ UNCHANGED <<global_stack, apc, areg>>
       ELSE IF global_stack # <<>>
         THEN /\ global_stack' = stack_pop(global_stack)
              /\ local_lists' = [local_lists EXCEPT
                                   ![id] = PopLocal(@, TRUE, stack_top(global_stack))]
              /\ Return(stack_top(global_stack))
              /\ UNCHANGED <<apc, areg>>
         ELSE /\ apc' = [apc EXCEPT ![id] = "allocate"]
              /\ areg' = [areg EXCEPT ![id] = [NoCall EXCEPT !.num_blocks = list_length]]
              /\ UNCHANGED <<local_lists, global_stack, held, next>>
  /\ aout' = NoAOut
  /\ UNCHANGED <<pool_roots, blocks_allocated, exited, max_blocks, list_length>>
  /\ UNCHANGED nonAllocVars

\* reserve(n), worker id, after construction: size_t num_lists = ...; the
\* call goes on to allocate_blocks(list_length*num_lists).
Reserve(id) ==
  /\ ~exited /\ Constructed /\ apc[id] = "idle"
  /\ \E n \in ReserveCounts :
       /\ acalls + list_length * NumLists(n) <= MaxAllocs
       /\ acalls' = acalls + list_length * NumLists(n)
       /\ areg' = [areg EXCEPT ![id] = [start |-> NULL,
                                        num_blocks |-> list_length * NumLists(n),
                                        lists |-> 0 .. NumLists(n) - 1]]
  /\ apc' = [apc EXCEPT ![id] = "allocate"]
  /\ aout' = NoAOut
  /\ UNCHANGED <<local_lists, global_stack, pool_roots, blocks_allocated, next,
                 held, exited, max_blocks, list_length>>
  /\ UNCHANGED nonAllocVars

\* allocate_blocks(num_blocks): uchar* start = aligned_alloc(...)
AllocateBlocks(id) ==
  /\ ~exited /\ apc[id] = "allocate"
  /\ next' = aligned_alloc(next, areg[id].num_blocks)
  /\ areg' = [areg EXCEPT ![id].start = Len(next) + 1]
  /\ apc' = [apc EXCEPT ![id] = "count"]
  /\ UNCHANGED <<local_lists, global_stack, pool_roots, blocks_allocated, held,
                 exited, aout>>
  /\ UNCHANGED <<acalls, max_blocks, list_length, nonAllocVars>>

\* CountBlocks counting the slab twice.
CountBlocksTwice(id) ==
  /\ ~exited /\ apc[id] = "count"
  /\ blocks_allocated' = blocks_allocated + 2 * areg[id].num_blocks
  /\ apc' = [apc EXCEPT ![id] = "check"]
  /\ UNCHANGED <<local_lists, global_stack, pool_roots, next, areg, held, exited,
                 aout>>
  /\ UNCHANGED <<acalls, max_blocks, list_length, nonAllocVars>>

\* blocks_allocated += num_blocks; // atomic
CountBlocks(id) ==
  /\ ~exited /\ apc[id] = "count"
  /\ blocks_allocated' = blocks_allocated + areg[id].num_blocks
  /\ apc' = [apc EXCEPT ![id] = "check"]
  /\ UNCHANGED <<local_lists, global_stack, pool_roots, next, areg, held, exited,
                 aout>>
  /\ UNCHANGED <<acalls, max_blocks, list_length, nonAllocVars>>

\* if (blocks_allocated > max_blocks) { fprintf(...); exit(1); }
CheckMax(id) ==
  /\ ~exited /\ apc[id] = "check"
  /\ IF TooMany(blocks_allocated)
       THEN exited' = TRUE /\ UNCHANGED apc
       ELSE apc' = [apc EXCEPT ![id] = "root"] /\ UNCHANGED exited
  /\ UNCHANGED <<local_lists, global_stack, pool_roots, blocks_allocated, next,
                 areg, held, aout>>
  /\ UNCHANGED <<acalls, max_blocks, list_length, nonAllocVars>>

\* pool_roots.push(start); return start; then initialize_list(start), the
\* refill of the local list with it and the rest of alloc.
PushRoot(id) ==
  /\ ~exited /\ apc[id] = "root" /\ areg[id].lists = {}
  /\ pool_roots' = stack_push(pool_roots, areg[id].start)
  /\ local_lists' = [local_lists EXCEPT
                       ![id].head = initialize_list(next, areg[id].start)[areg[id].start],
                       ![id].sz = list_length - 1]
  /\ held' = [b \in 1 .. Len(next) |->
                (IF b \in DOMAIN held THEN held[b] ELSE 0)
                + (IF b = areg[id].start THEN 1 ELSE 0)]
  /\ next' = [initialize_list(next, areg[id].start) EXCEPT ![areg[id].start] = JUNK]
  /\ apc' = [apc EXCEPT ![id] = "idle"]
  /\ UNCHANGED <<global_stack, blocks_allocated, areg, exited, aout>>
  /\ UNCHANGED <<acalls, max_blocks, list_length, nonAllocVars>>

\* pool_roots.push(start); return start; in reserve, which goes on to its
\* parallel_for.
ReserveRoot(id) ==
  /\ ~exited /\ apc[id] = "root" /\ areg[id].lists # {}
  /\ pool_roots' = stack_push(pool_roots, areg[id].start)
  /\ apc' = [apc EXCEPT ![id] = "push"]
  /\ UNCHANGED <<local_lists, global_stack, blocks_allocated, next, areg, held,
                 exited, aout>>
  /\ UNCHANGED <<acalls, max_blocks, list_length, nonAllocVars>>

\* One iteration of reserve's parallel_for, in any order:
\* global_stack.push(initialize_list(offset)); reserve returns after the last.
ReservePush(id) ==
  /\ ~exited /\ apc[id] = "push"
  /\ \E i \in areg[id].lists :
       /\ next' = initialize_list(next, areg[id].start + i * list_length)
       /\ global_stack' = stack_push(global_stack, areg[id].start + i * list_length)
       /\ areg' = [areg EXCEPT ![id].lists = @ \ {i}]
       /\ apc' = [apc EXCEPT ![id] = IF areg[id].lists = {i} THEN "idle" ELSE "push"]
  /\ UNCHANGED <<local_lists, pool_roots, blocks_allocated, held, exited, aout>>
  /\ UNCHANGED <<acalls, max_blocks, list_length, nonAllocVars>>

\* FreeSz without local_lists[id].sz = list_length after the push.
FreeSzNoReset(sz) == sz + 1

\* local_lists[id].sz after free: reset to list_length when the older half
\* was pushed to the global stack (the else-if branch, not taken when sz is
\* list_length + 1 as well), then sz++.
FreeSz(sz) ==
  IF sz # list_length + 1 /\ sz = 2 * list_length THEN list_length + 1
  ELSE sz + 1

\* free(ptr), worker id, for an outstanding block ptr (whoever allocated it).
\* Its one access to what the workers share is the push of the older half of
\* the local list (mid->next) when sz == 2 * list_length.
Free(id, ptr) ==
  /\ ~exited /\ apc[id] = "idle"
  /\ ptr \in Outstanding
  /\ held' = [held EXCEPT ![ptr] = @ - 1]
  /\ IF local_lists[id].sz = list_length + 1
       THEN /\ local_lists' = [local_lists EXCEPT
                                 ![id].mid = local_lists[id].head,
                                 ![id].head = ptr, ![id].sz = FreeSz(@)]
            /\ next' = [next EXCEPT ![ptr] = local_lists[id].head]
            /\ UNCHANGED global_stack
       ELSE IF local_lists[id].sz = 2 * list_length
         THEN /\ global_stack' = stack_push(global_stack, next[local_lists[id].mid])
              /\ next' = [next EXCEPT ![local_lists[id].mid] = NULL,
                                      ![ptr] = local_lists[id].head]
              /\ local_lists' = [local_lists EXCEPT
                                   ![id].head = ptr, ![id].sz = FreeSz(@)]
         ELSE /\ local_lists' = [local_lists EXCEPT
                                   ![id].head = ptr, ![id].sz = FreeSz(@)]
              /\ next' = [next EXCEPT ![ptr] = local_lists[id].head]
              /\ UNCHANGED global_stack
  /\ aout' = NoAOut
  /\ UNCHANGED <<apc, pool_roots, blocks_allocated, areg, exited>>
  /\ UNCHANGED <<acalls, max_blocks, list_length, nonAllocVars>>

\* No alloc or free call is in progress.
Quiescent == \A id \in Workers : apc[id] = "idle"

\* num_used_blocks(), called while no alloc or free is in progress.
NumUsedBlocks ==
  /\ ~exited /\ Quiescent
  /\ aout.op = "none"
  /\ aout' = [op |-> "num_used", res |-> num_used_blocks]
  /\ UNCHANGED <<apc, local_lists, global_stack, pool_roots, blocks_allocated,
                 next, areg, held, exited>>
  /\ UNCHANGED <<acalls, max_blocks, list_length, nonAllocVars>>

AllocNext ==
  \/ \E id \in Workers :
       \/ Alloc(id) \/ AllocateBlocks(id) \/ CountBlocks(id) \/ CheckMax(id)
       \/ PushRoot(id)
       \/ Reserve(id) \/ ReserveRoot(id) \/ ReservePush(id)
       \/ \E ptr \in DOMAIN held : Free(id, ptr)
  \/ NumUsedBlocks

\* No allocator: the state of its variables while another part runs.
AllocOff ==
  /\ apc = <<>> /\ local_lists = <<>> /\ global_stack = <<>> /\ pool_roots = <<>>
  /\ blocks_allocated = 0 /\ next = <<>> /\ areg = <<>> /\ held = <<>>
  /\ exited = FALSE /\ acalls = 0 /\ aout = NoAOut /\ max_blocks = 0
  /\ list_length = 0

-----------------------------------------------------------------------------
(* BFS (src/benchmark/BFS.h) over edgeMap (ligra.h, taken from the edge-map  *)
(* kernel's description: push mode calls updateAtomic for every edge out of  *)
(* the frontier, in any order; pull mode scans the in-neighbors of every     *)
(* destination that passes cond and stops at the first accepted update).     *)

\* Vertices of the exhaustively enumerated directed graphs of BFS, and of
\* those of the single edgeMap runs.
NV == 4
EMN == 3
\* Vertices of the path 0 - 1 - ... and leaves of the star with center 0.
PathLen == 6
StarLeaves == 3

\* (uintE)-1: the value no vertex id has.
UINT_E_MAX == 0 - 1

Sym(E) == E \cup {<<e[2], e[1]>> : e \in E}

PathGraph == [n |-> PathLen, E |-> Sym({<<i, i + 1>> : i \in 0 .. PathLen - 2})]
StarGraph == [n |-> StarLeaves + 1, E |-> Sym({<<0, i>> : i \in 1 .. StarLeaves})]

\* Every directed graph on n vertices whose edges join vertices that differ
\* by 1 or 2 (no self-loops): with 4 vertices they include the graphs where
\* two vertices of a frontier share an unvisited out-neighbor.
GraphsOn(n) ==
  {[n |-> n, E |-> E] :
     E \in SUBSET {e \in (0 .. n - 1) \X (0 .. n - 1) :
                     e[1] # e[2] /\ e[1] - e[2] \in -2 .. 2}}

\* The graphs BFS is run on, from src 0: the small graphs, the path and the
\* star.
BFSGraphs == GraphsOn(NV) \cup {PathGraph, StarGraph}

\* pbbslib::atomic_compare_and_swap(&P[d], old, new): the new array and
\* whether the swap was made.
atomic_compare_and_swap(P, d, old, new) ==
  [P |-> IF P[d] = old THEN [P EXCEPT ![d] = new] ELSE P, r |-> P[d] = old]

\* update that sets the parent and returns 0 in both branches.
updateNoAccept(P, s, d) ==
  IF P[d] = UINT_E_MAX THEN [P |-> [P EXCEPT ![d] = s], r |-> FALSE]
                       ELSE [P |-> P, r |-> FALSE]

\* BFS_F::update
update(P, s, d) ==
  IF P[d] = UINT_E_MAX THEN [P |-> [P EXCEPT ![d] = s], r |-> TRUE]
                       ELSE [P |-> P, r |-> FALSE]

\* updateAtomic that writes without comparing.
updateAtomicBlind(P, s, d) == [P |-> [P EXCEPT ![d] = s], r |-> TRUE]

\* updateAtomic that swaps in d instead of s.
updateAtomicWrongParent(P, s, d) == atomic_compare_and_swap(P, d, UINT_E_MAX, d)

\* BFS_F::updateAtomic
updateAtomic(P, s, d) == atomic_compare_and_swap(P, d, UINT_E_MAX, s)

\* cond with the test inverted.
condInverted(P, d) == P[d] # UINT_E_MAX

\* BFS_F::cond
cond(P, d) == P[d] = UINT_E_MAX

\* Pull mode for destination d: its in-neighbors s, in index order from s on,
\* that are in S get update(s, d) until one returns true.
RECURSIVE denseScan(_, _, _, _, _)
denseScan(G, S, P, d, s) ==
  IF s >= G.n THEN [P |-> P, r |-> FALSE]
  ELSE IF <<s, d>> \in G.E /\ s \in S /\ update(P, s, d).r
         THEN update(P, s, d)
         ELSE denseScan(G, S, P, d, s + 1)

\* Pull mode over the destinations d, d + 1, ...: each d with cond(d) is
\* scanned by its own task, which touches Parents[d] only.
RECURSIVE edgeMapDense(_, _, _, _, _)
edgeMapDense(G, S, P, d, acc) ==
  LET K(r) == edgeMapDense(G, S, r.P, d + 1, IF r.r THEN acc \cup {d} ELSE acc)
  IN  IF d >= G.n THEN [P |-> P, out |-> acc]
      ELSE IF cond(P, d) THEN K(denseScan(G, S, P, d, 0))
           ELSE edgeMapDense(G, S, P, d + 1, acc)

\* Push mode: the calls to make, one per edge out of S.
SparseCalls(G, S) == {e \in G.E : e[1] \in S}

NoRun == [run |-> FALSE, out |-> {}]

\* The state at BFS's first while test.
BFSInit ==
  /\ GA \in BFSGraphs
  /\ bsrc = 0
  /\ Parents = [v \in 0 .. GA.n - 1 |-> IF v = bsrc THEN bsrc ELSE UINT_E_MAX]
  /\ Frontier = {bsrc}
  /\ reachable = 0
  /\ printed = <<>>
  /\ pending = {} /\ output = {}
  /\ ParentsD = <<>> /\ outputD = NoRun
  /\ tested = {}
  /\ wins = [v \in 0 .. GA.n - 1 |-> 0]
  /\ entered = [v \in 0 .. GA.n - 1 |-> IF v = bsrc THEN 1 ELSE 0]
  /\ bpc = "loop"

\* One iteration of the while loop up to the edgeMap call, the edgeMap in
\* pull mode: std::cout << Frontier.size(); reachable += Frontier.size();
\* output = edgeMap(...); Frontier = output.
RoundDense ==
  /\ bpc = "loop" /\ Frontier # {}
  /\ printed' = Append(printed, Cardinality(Frontier))
  /\ reachable' = reachable + Cardinality(Frontier)
  /\ LET r == edgeMapDense(GA, Frontier, Parents, 0, {})
     IN  /\ Parents' = r.P /\ Frontier' = r.out
         /\ entered' = [d \in DOMAIN entered |->
                          entered[d] + (IF d \in r.out THEN 1 ELSE 0)]
  /\ UNCHANGED <<bpc, GA, bsrc, pending, output, ParentsD, outputD, tested, wins>>
  /\ UNCHANGED nonBfsVars

\* The same up to the start of an edgeMap in push mode.
RoundSparse ==
  /\ bpc = "loop" /\ Frontier # {}
  /\ printed' = Append(printed, Cardinality(Frontier))
  /\ reachable' = reachable + Cardinality(Frontier)
  /\ pending' = SparseCalls(GA, Frontier)
  /\ output' = {}
  /\ bpc' = "sparse"
  /\ UNCHANGED <<GA, bsrc, Parents, Frontier, ParentsD, outputD, tested, wins,
                 entered>>
  /\ UNCHANGED nonBfsVars

\* Push mode, one call: if cond(d) holds and updateAtomic(s, d) returns true,
\* d is accepted.  The calls run concurrently: any pending one is next.  A
\* call whose cond(d) fails and a call whose compare-and-swap fails leave
\* the same state, so the test and the swap are one step.
SparseStep ==
  /\ bpc = "sparse" \/ (bpc = "em" /\ outputD.run)
  /\ \E e \in pending :
       LET r == IF cond(Parents, e[2]) THEN updateAtomic(Parents, e[1], e[2])
                ELSE [P |-> Parents, r |-> FALSE]
       IN  /\ pending' = pending \ {e}
           /\ Parents' = r.P
           /\ output' = IF r.r THEN output \cup {e[2]} ELSE output
           /\ wins' = IF r.r THEN [wins EXCEPT ![e[2]] = @ + 1] ELSE wins
           /\ entered' = IF r.r THEN [entered EXCEPT ![e[2]] = @ + 1] ELSE entered
  /\ UNCHANGED <<bpc, GA, bsrc, Frontier, reachable, printed, ParentsD, outputD,
                 tested>>
  /\ UNCHANGED nonBfsVars

\* Push mode, the first half of a call: cond(d).  A call whose cond(d) is
\* false is over.
SparseTest ==
  /\ bpc = "sparse"
  /\ \E e \in pending :
       /\ pending' = pending \ {e}
       /\ tested' = IF cond(Parents, e[2]) THEN tested \cup {e} ELSE tested
  /\ UNCHANGED <<bpc, GA, bsrc, Parents, Frontier, output, reachable, printed,
                 ParentsD, outputD, wins, entered>>
  /\ UNCHANGED nonBfsVars

\* Push mode, the second half of a call: updateAtomic(s, d), made after any
\* steps of the other calls; d is written to the output when it returns
\* true.
SparseSwap ==
  /\ bpc = "sparse"
  /\ \E e \in tested :
       LET K(r) ==
             /\ tested' = tested \ {e}
             /\ Parents' = r.P
             /\ output' = IF r.r THEN output \cup {e[2]} ELSE output
             /\ wins' = IF r.r THEN [wins EXCEPT ![e[2]] = @ + 1] ELSE wins
             /\ entered' = IF r.r THEN [entered EXCEPT ![e[2]] = @ + 1]
                                  ELSE entered
       IN  K(updateAtomic(Parents, e[1], e[2]))
  /\ UNCHANGED <<bpc, GA, bsrc, Frontier, pending, reachable, printed, ParentsD,
                 outputD>>
  /\ UNCHANGED nonBfsVars

\* The push edgeMap returns: Frontier.del(); Frontier = output.
SparseReturn ==
  /\ bpc = "sparse" /\ pending = {} /\ tested = {}
  /\ Frontier' = output
  /\ output' = {}
  /\ bpc' = "loop"
  /\ UNCHANGED <<GA, bsrc, Parents, pending, reachable, printed, ParentsD, outputD,
                 tested, wins, entered>>
  /\ UNCHANGED nonBfsVars

\* The while test inverted: the loop ends on a frontier that has vertices.
BFSReturnNonEmpty ==
  /\ bpc = "loop" /\ Frontier # {}
  /\ bpc' = "done"
  /\ UNCHANGED <<GA, bsrc, Parents, Frontier, pending, output, reachable, printed,
                 ParentsD, outputD, tested, wins, entered>>
  /\ UNCHANGED nonBfsVars

\* The loop ends: std::cout << "Reachable: " << reachable; return Parents.
BFSReturn ==
  /\ bpc = "loop" /\ Frontier = {}
  /\ bpc' = "done"
  /\ UNCHANGED <<GA, bsrc, Parents, Frontier, pending, output, reachable, printed,
                 ParentsD, outputD, tested, wins, entered>>
  /\ UNCHANGED nonBfsVars

BFSNext == RoundDense \/ RoundSparse \/ SparseStep \/ SparseReturn \/ BFSReturn

\* BFS with the two halves of a push call as steps of their own.
BFSRaceNext ==
  RoundDense \/ RoundSparse \/ SparseTest \/ SparseSwap \/ SparseReturn \/ BFSReturn

\* One edgeMap with BFS_F from any Parents and any frontier, run in push
\* mode (on Parents) and in pull mode (on ParentsD, the same array).
EMInit ==
  /\ GA \in GraphsOn(EMN)
  /\ bsrc = 0
  /\ Parents \in [0 .. GA.n - 1 -> {UINT_E_MAX, 0}]
  /\ ParentsD = Parents
  /\ Frontier \in SUBSET (0 .. GA.n - 1)
  /\ pending = SparseCalls(GA, Frontier)
  /\ output = {} /\ outputD = NoRun
  /\ reachable = 0 /\ printed = <<>>
  /\ tested = {}
  /\ wins = [v \in 0 .. GA.n - 1 |-> 0]
  /\ entered = [v \in 0 .. GA.n - 1 |-> 0]
  /\ bpc = "em"

\* The pull run of the edgeMap, made first: the two runs share nothing.
EMDense ==
  /\ bpc = "em" /\ ~outputD.run
  /\ LET r == edgeMapDense(GA, Frontier, ParentsD, 0, {})
     IN  ParentsD' = r.P /\ outputD' = [run |-> TRUE, out |-> r.out]
  /\ UNCHANGED <<bpc, GA, bsrc, Parents, Frontier, pending, output, reachable,
                 printed, tested, wins, entered>>
  /\ UNCHANGED nonBfsVars

\* Both runs have returned.
EMReturn ==
  /\ bpc = "em" /\ pending = {} /\ outputD.run
  /\ bpc' = "em_done"
  /\ UNCHANGED <<GA, bsrc, Parents, Frontier, pending, output, reachable, printed,
                 ParentsD, outputD, tested, wins, entered>>
  /\ UNCHANGED nonBfsVars

EMNext == SparseStep \/ EMDense \/ EMReturn

\* No BFS: the state of its variables while another part runs.
BFSOff ==
  /\ bpc = "off" /\ GA = [n |-> 0, E |-> {}] /\ bsrc = 0 /\ Parents = <<>>
  /\ Frontier = {} /\ pending = {} /\ output = {} /\ reachable = 0
  /\ printed = <<>> /\ ParentsD = <<>> /\ outputD = NoRun
  /\ tested = {} /\ wins = <<>> /\ entered = <<>>

-----------------------------------------------------------------------------
(* wBFS (src/benchmark/wBFS.h) over edgeMapData (ligra.h) and the buckets    *)
(* (bucket.h), both taken from their descriptions.  A uintE is the record    *)
(* [top, low] of its bit 31 and its bits 0..30, so that the arithmetic is    *)
(* that of 32 bits.                                                          *)

\* Vertices of the weighted graphs.
WNV == 4

INT_E_MAX == 2147483647

U32(v) == [top |-> FALSE, low |-> v]

\* x | TOP_BIT, x & TOP_BIT (as a truth value), x & VAL_MASK
OrTopBit(x) == [x EXCEPT !.top = TRUE]
HasTopBit(x) == x.top
AndValMask(x) == [x EXCEPT !.top = FALSE]

\* x + w in 32 bits, for 0 < w <= INT_E_MAX: a carry out of bit 30 flips bit
\* 31, a carry out of bit 31 is lost.
Add32(x, w) ==
  IF x.low > INT_E_MAX - w
    THEN [top |-> ~x.top, low |-> x.low - (INT_E_MAX - w) - 1]
    ELSE [top |-> x.top, low |-> x.low + w]

\* x < y on uintE
Lt32(x, y) == (~x.top /\ y.top) \/ (x.top = y.top /\ x.low < y.low)

\* The weighted graphs: between i and i + 1 no edge or one of weight 1 or
\* 2^30, between i and i + 2 no edge or one of weight 1 or 5, and maybe an
\* edge of weight 1 back from i + 1 to i for even i.
EdgeChoices(n) ==
  [{<<i, i + 1>> : i \in 0 .. n - 2} -> {0, 1, 2 ^ 30}]
    \X [{<<i, i + 2>> : i \in 0 .. n - 3} -> {0, 1, 5}]
    \X (SUBSET {<<i + 1, i, 1>> : i \in {j \in 0 .. n - 2 : j % 2 = 0}})

WGraphs(n) ==
  {[n |-> n,
    E |-> {<<p[1], p[2], ch[1][p]>> : p \in {q \in DOMAIN ch[1] : ch[1][q] # 0}}
          \cup {<<p[1], p[2], ch[2][p]>> : p \in {q \in DOMAIN ch[2] : ch[2][q] # 0}}
          \cup ch[3]] : ch \in EdgeChoices(n)}

\* The triangle 0->1:1, 0->2:5, 1->2:1.
Triangle == [n |-> 3, E |-> {<<0, 1, 1>>, <<0, 2, 5>>, <<1, 2, 1>>}]

\* get_bkt / get_ring: (dist == INT_E_MAX) ? UINT_E_MAX : dist
get_bkt(dist) == IF dist = U32(INT_E_MAX) THEN UINT_E_MAX ELSE dist.low

\* b.null_bkt
null_bkt == UINT_E_MAX

\* b.next_bucket() on the buckets (pr, c): the non-empty bucket with the
\* smallest id not below c, with its identifiers taken out, or the null
\* bucket; c moves up to the bucket returned, which is returned again when
\* identifiers are moved into it.
next_bucket(pr, c) ==
  LET live == {v \in DOMAIN pr : pr[v] # UINT_E_MAX /\ pr[v] >= c}
      id   == CHOOSE x \in {pr[v] : v \in live} : \A v \in live : x <= pr[v]
  IN  IF live = {}
        THEN [bkt |-> [id |-> null_bkt, identifiers |-> {}], prio |-> pr, cur |-> c]
        ELSE [bkt  |-> [id |-> id, identifiers |-> {v \in live : pr[v] = id}],
              prio |-> [v \in DOMAIN pr |-> IF v \in live /\ pr[v] = id
                                              THEN UINT_E_MAX ELSE pr[v]],
              cur  |-> id]

\* b.get_bucket(prev_bkt, new_bkt): the bucket to move to, null_bkt for none.
get_bucket(prev, new) == IF prev = new THEN null_bkt ELSE new

\* b.update_buckets(f, k): every pair (id, dest) with dest # null_bkt moves id
\* to bucket dest.  moves maps the ids of the pairs to their dest.
update_buckets(pr, moves) ==
  [v \in DOMAIN pr |->
     IF v \in DOMAIN moves /\ moves[v] # null_bkt THEN moves[v] ELSE pr[v]]

\* The state at wBFS's first while test: dists and the buckets are built and
\* bkt = b.next_bucket() has run; src is vertex 0.
WBFSInit ==
  /\ WG \in WGraphs(WNV) \cup {Triangle}
  /\ dists = [v \in 0 .. WG.n - 1 |-> IF v = 0 THEN U32(0) ELSE U32(INT_E_MAX)]
  /\ LET pr == [v \in 0 .. WG.n - 1 |->
                  get_bkt(IF v = 0 THEN U32(0) ELSE U32(INT_E_MAX))]
         nb == next_bucket(pr, 0)
     IN  bkt = nb.bkt /\ prio = nb.prio /\ cur = nb.cur /\ returned = <<nb.bkt>>
  /\ belowCur = FALSE
  /\ wcalls = {} /\ inflight = {} /\ res = {}
  /\ rd = 0
  /\ wpc = "loop"
  /\ dists0 = dists /\ presents = [v \in 0 .. WG.n - 1 |-> 0] /\ lowered = {}

\* while (bkt.id != b.null_bkt): active = vertexSubset(n, bkt.identifiers) and
\* the start of edgeMapData, which (dense_forward | no_dense | sparse_blocked)
\* calls updateAtomic for every edge out of active.
WRoundStart ==
  /\ wpc = "loop" /\ bkt.id # null_bkt
  /\ wcalls' = {e \in WG.E : e[1] \in bkt.identifiers}
  /\ inflight' = {}
  /\ res' = {}
  /\ wpc' = "em"
  /\ dists0' = dists /\ presents' = [v \in 0 .. WG.n - 1 |-> 0] /\ lowered' = {}
  /\ UNCHANGED <<WG, dists, prio, cur, bkt, rd, returned, belowCur>>
  /\ UNCHANGED nonWbfsVars

\* Visit_F::updateAtomic(s, d, w), its reads: oval = dists[d]; dist = oval |
\* TOP_BIT; n_dist = (dists[s] | TOP_BIT) + w; the call ends here when not
\* (n_dist < dist), else it goes on to its compare-and-swap when oval has no
\* TOP_BIT and to its write_min otherwise.
VisitRead ==
  /\ wpc = "em"
  /\ \E e \in wcalls :
       LET oval   == dists[e[2]]
           n_dist == Add32(OrTopBit(dists[e[1]]), e[3])
       IN  /\ wcalls' = wcalls \ {e}
           /\ inflight' =
                IF Lt32(n_dist, OrTopBit(oval))
                  THEN inflight \cup {[e |-> e, oval |-> oval, n_dist |-> n_dist,
                                       op |-> IF HasTopBit(oval) THEN "write_min"
                                                                 ELSE "cas"]}
                  ELSE inflight
  /\ UNCHANGED <<wpc, WG, dists, prio, cur, bkt, res, rd, returned, belowCur, roundHist>>
  /\ UNCHANGED nonWbfsVars

\* VisitCas with a plain write for the compare-and-swap.
VisitCasBlind ==
  /\ wpc = "em"
  /\ \E c \in inflight :
       /\ c.op = "cas"
       /\ dists' = [dists EXCEPT ![c.e[2]] = c.n_dist]
       /\ res' = res \cup {<<c.e[2], c.oval>>}
       /\ inflight' = inflight \ {c}
       /\ presents' = [presents EXCEPT ![c.e[2]] = @ + 1]
       /\ lowered' = lowered \cup {c.e[2]}
  /\ UNCHANGED <<wpc, WG, prio, cur, bkt, wcalls, rd, returned, belowCur, dists0>>
  /\ UNCHANGED nonWbfsVars

\* pbbslib::atomic_compare_and_swap(&(dists[d]), oval, n_dist): the first
\* visitor returns Maybe<uintE>(oval), the others go on to write_min.
VisitCas ==
  /\ wpc = "em"
  /\ \E c \in inflight :
       /\ c.op = "cas"
       /\ IF dists[c.e[2]] = c.oval
            THEN /\ dists' = [dists EXCEPT ![c.e[2]] = c.n_dist]
                 /\ res' = res \cup {<<c.e[2], c.oval>>}
                 /\ inflight' = inflight \ {c}
                 /\ presents' = [presents EXCEPT ![c.e[2]] = @ + 1]
                 /\ lowered' = lowered \cup {c.e[2]}
            ELSE /\ inflight' = (inflight \ {c}) \cup {[c EXCEPT !.op = "write_min"]}
                 /\ UNCHANGED <<dists, res, presents, lowered>>
  /\ UNCHANGED <<wpc, WG, prio, cur, bkt, wcalls, rd, returned, belowCur, dists0>>
  /\ UNCHANGED nonWbfsVars

\* VisitWriteMin without the write.
VisitWriteMinNoWrite ==
  /\ wpc = "em"
  /\ \E c \in inflight :
       /\ c.op = "write_min"
       /\ inflight' = inflight \ {c}
  /\ UNCHANGED <<wpc, WG, dists, prio, cur, bkt, wcalls, res, rd, returned, belowCur, roundHist>>
  /\ UNCHANGED nonWbfsVars

\* pbbslib::write_min(&(dists[d]), n_dist); return Maybe<uintE>()
VisitWriteMin ==
  /\ wpc = "em"
  /\ \E c \in inflight :
       /\ c.op = "write_min"
       /\ dists' = [dists EXCEPT ![c.e[2]] = IF Lt32(c.n_dist, @) THEN c.n_dist ELSE @]
       /\ lowered' = IF Lt32(c.n_dist, dists[c.e[2]]) THEN lowered \cup {c.e[2]} ELSE lowered
       /\ inflight' = inflight \ {c}
  /\ UNCHANGED <<wpc, WG, prio, cur, bkt, wcalls, res, rd, returned, belowCur, dists0, presents>>
  /\ UNCHANGED nonWbfsVars

\* apply_f leaving dists[v] as it is.
ApplyDistsKeep(ds, rs) == ds

\* apply_f(v, oldDist) for the pairs of res: the new dists and the pairs
\* (v, dest_bkt).
ApplyDists(ds, rs) ==
  [v \in DOMAIN ds |-> IF \E r \in rs : r[1] = v THEN AndValMask(ds[v]) ELSE ds[v]]

\* apply_f writing no destination back.
ApplyMovesNone(ds, rs) == [v \in {r[1] : r \in rs} |-> null_bkt]

ApplyMoves(ds, rs) ==
  [v \in {r[1] : r \in rs} |->
     LET oldDist == (CHOOSE r \in rs : r[1] = v)[2]
     IN  get_bucket(get_bkt(oldDist), get_bkt(AndValMask(ds[v])))]

\* Some destination of moves is below the bucket id.
Below(moves, id) == \E x \in DOMAIN moves : moves[x] # null_bkt /\ moves[x] < id

\* edgeMapData has returned res: vertexMap(res, apply_f);
\* b.update_buckets(...); bkt = b.next_bucket(); rd++
WRoundEnd ==
  /\ wpc = "em" /\ wcalls = {} /\ inflight = {}
  /\ dists' = ApplyDists(dists, res)
  /\ LET nb == next_bucket(update_buckets(prio, ApplyMoves(dists, res)), cur)
     IN  /\ bkt' = nb.bkt /\ prio' = nb.prio /\ cur' = nb.cur
         /\ returned' = Append(returned, nb.bkt)
  /\ belowCur' = (belowCur \/ Below(ApplyMoves(dists, res), bkt.id))
  /\ res' = {}
  /\ rd' = rd + 1
  /\ wpc' = "loop"
  /\ UNCHANGED <<WG, wcalls, inflight, roundHist>>
  /\ UNCHANGED nonWbfsVars

\* The loop ends: return dists.
WReturn ==
  /\ wpc = "loop" /\ bkt.id = null_bkt
  /\ wpc' = "done"
  /\ UNCHANGED <<WG, dists, prio, cur, bkt, wcalls, inflight, res, rd, returned, belowCur, roundHist>>
  /\ UNCHANGED nonWbfsVars

WBFSNext ==
  WRoundStart \/ VisitRead \/ VisitCas \/ VisitWriteMin \/ WRoundEnd \/ WReturn

\* No wBFS: the state of its locals while another part runs, and that of the
\* buckets while neither wBFS nor KTruss_ht runs.
WBFSIdle ==
  /\ wpc = "off" /\ WG = [n |-> 0, E |-> {}] /\ dists = <<>> /\ wcalls = {}
  /\ inflight = {} /\ res = {} /\ rd = 0
  /\ dists0 = <<>> /\ presents = <<>> /\ lowered = {}

WBFSOff ==
  /\ WBFSIdle
  /\ prio = <<>> /\ cur = 0 /\ bkt = [id |-> null_bkt, identifiers |-> {}]
  /\ returned = <<>> /\ belowCur = FALSE

-----------------------------------------------------------------------------
(* KTruss_ht (src/experimental/KTruss.h), its peeling loop.  The multi-table *)
(* and decrement_trussness (truss_utils.h) are taken from KTruss.h's         *)
(* high-level description: a table slot is a pair <<u, v>>, u < v; the slots *)
(* without an edge are in the infinity bucket.                               *)

\* Vertices of the undirected graphs.
KNV == 5

Slots(n) == {e \in (0 .. n - 1) \X (0 .. n - 1) : e[1] < e[2]}

\* trussness_multi.idx(u, v)
idx(u, v) == IF u < v THEN <<u, v>> ELSE <<v, u>>

\* The neighbours of u in G.
Nghs(G, u) == {w \in 0 .. KNV - 1 : w # u /\ idx(u, w) \in G}

\* initialize_trussness_values: the number of triangles on every edge.
initialize_trussness_values(G) ==
  [e \in Slots(KNV) |->
     IF e \in G THEN Cardinality(Nghs(G, e[1]) \cap Nghs(G, e[2]))
                ELSE UINT_E_MAX]

\* decrement_trussness over rem_edges, as decr_tab.entries(): for every edge e
\* of trussness above k, the number of triangles on e, with both other sides
\* of trussness k or more, that lose a side to rem_edges; the edges that lose
\* none have no entry.
decr_edges(G, tr, rem, k) ==
  LET lost(e) ==
        Cardinality({w \in Nghs(G, e[1]) \cap Nghs(G, e[2]) :
                       /\ tr[idx(e[1], w)] >= k /\ tr[idx(e[2], w)] >= k
                       /\ (idx(e[1], w) \in rem \/ idx(e[2], w) \in rem)})
  IN  [e \in {f \in G : tr[f] > k /\ lost(f) > 0} |-> lost(e)]

\* new_deg without the std::max.
new_degNoFloor(current_deg, triangles_removed, k) == current_deg - triangles_removed

\* uintE new_deg = std::max(current_deg - triangles_removed, k); an edge never
\* loses more triangles than its trussness.
new_deg(current_deg, triangles_removed, k) ==
  IF current_deg - triangles_removed > k THEN current_deg - triangles_removed
                                         ELSE k

\* The state at KTruss_ht's first while test.
KTrussInit ==
  /\ KG \in SUBSET Slots(KNV)
  /\ trussness = initialize_trussness_values(KG)
  /\ prio = initialize_trussness_values(KG)
  /\ cur = 0
  /\ bkt = [id |-> null_bkt, identifiers |-> {}]
  /\ returned = <<>>
  /\ belowCur = FALSE
  /\ finished = 0
  /\ kpc = "loop"

\* One iteration of while (finished != n_edges), with k = bkt.id and
\* rem_edges = bkt.identifiers of the bucket nb returned by b.next_bucket().
\* An iteration that gets no identifiers continues with nothing changed, and
\* so does every iteration after it ("spin").
KPeelBody(nb) ==
  LET k == nb.bkt.id
      rem_edges == nb.bkt.identifiers
      n_edges == Cardinality(KG)
  IN  \E decr \in {decr_edges(KG, trussness, rem_edges, k)} :
      \E moves \in {[e \in DOMAIN decr |->
                       get_bucket(trussness[e], new_deg(trussness[e], decr[e], k))]} :
        /\ bkt' = nb.bkt
        /\ cur' = nb.cur
        /\ returned' = Append(returned, nb.bkt)
        /\ IF rem_edges = {}
             THEN /\ kpc' = "spin"
                  /\ prio' = nb.prio
                  /\ UNCHANGED <<trussness, finished, belowCur>>
             ELSE /\ finished' = finished + Cardinality(rem_edges)
                  /\ kpc' = "loop"
                  /\ IF k = 0 \/ finished' = n_edges
                       THEN /\ trussness' = [e \in DOMAIN trussness |->
                                               IF e \in rem_edges THEN INT_E_MAX
                                                                  ELSE trussness[e]]
                            /\ prio' = nb.prio
                            /\ UNCHANGED belowCur
                       ELSE /\ trussness' = [e \in DOMAIN trussness |->
                                               IF e \in DOMAIN decr
                                                 THEN new_deg(trussness[e], decr[e], k)
                                               ELSE IF e \in rem_edges
                                                 THEN trussness[e] - 1
                                                 ELSE trussness[e]]
                            /\ prio' = update_buckets(nb.prio, moves)
                            /\ belowCur' = (belowCur \/ Below(moves, k))

KPeel ==
  /\ kpc = "loop" /\ finished # Cardinality(KG)
  /\ \E nb \in {next_bucket(prio, cur)} : KPeelBody(nb)
  /\ UNCHANGED <<KG, wpc, WG, dists, wcalls, inflight, res, rd, roundHist>>
  /\ UNCHANGED nonPeelVars

\* The loop ends.
KReturn ==
  /\ kpc = "loop" /\ finished = Cardinality(KG)
  /\ kpc' = "done"
  /\ UNCHANGED <<KG, trussness, finished, wbfsVars>>
  /\ UNCHANGED nonPeelVars

KTrussNext == KPeel \/ KReturn

\* No KTruss_ht: the state of its locals while another part runs.
KTrussOff == kpc = "off" /\ KG = {} /\ trussness = <<>> /\ finished = 0

-----------------------------------------------------------------------------
(* Specifications *)

InitCodec == CodecInit /\ AllocOff /\ BFSOff /\ WBFSOff /\ KTrussOff

SpecCodec == InitCodec /\ [][CodecNext]_vars

InitCodecWide == CodecInitWide /\ AllocOff /\ BFSOff /\ WBFSOff /\ KTrussOff

SpecCodecWide == InitCodecWide /\ [][CodecNext]_vars

SpecIntersect == InitCodec /\ [][IntersectNext]_vars

InitIter == CodecInitIter /\ AllocOff /\ BFSOff /\ WBFSOff /\ KTrussOff

SpecIter == InitIter /\ [][IterNext]_vars

InitDecodePar == CodecInitPar /\ AllocOff /\ BFSOff /\ WBFSOff /\ KTrussOff

SpecDecodePar == InitDecodePar /\ [][DecodeParNext]_vars

InitAlloc == AllocInit /\ CodecOff /\ BFSOff /\ WBFSOff /\ KTrussOff

SpecAlloc == InitAlloc /\ [][AllocNext]_vars

InitAllocLists == AllocInitLists /\ CodecOff /\ BFSOff /\ WBFSOff /\ KTrussOff

SpecAllocLists == InitAllocLists /\ [][AllocNext]_vars

InitBFS == BFSInit /\ CodecOff /\ AllocOff /\ WBFSOff /\ KTrussOff

SpecBFSRace == InitBFS /\ [][BFSRaceNext]_vars

\* BFS on a scheduler that runs every forked call to its end and the loop on:
\* a step that can be taken is taken.
FairSpecBFS == InitBFS /\ [][BFSRaceNext]_vars /\ WF_vars(BFSRaceNext)

SpecBFS == InitBFS /\ [][BFSNext]_vars

InitEM == EMInit /\ CodecOff /\ AllocOff /\ WBFSOff /\ KTrussOff

SpecEM == InitEM /\ [][EMNext]_vars

InitWBFS == WBFSInit /\ CodecOff /\ AllocOff /\ BFSOff /\ KTrussOff

SpecWBFS == InitWBFS /\ [][WBFSNext]_vars

\* The two peeling loops: a run of wBFS or a run of KTruss_ht.
InitPeel ==
  /\ CodecOff /\ AllocOff /\ BFSOff
  /\ (WBFSInit /\ KTrussOff) \/ (KTrussInit /\ WBFSIdle)

SpecPeel == InitPeel /\ [][WBFSNext \/ KTrussNext]_vars

\* KTruss_ht alone, its loop running on: an iteration that can be made is
\* made.
InitKTruss == CodecOff /\ AllocOff /\ BFSOff /\ KTrussInit /\ WBFSIdle

FairSpecKTruss == InitKTruss /\ [][KTrussNext]_vars /\ WF_vars(KTrussNext)

-----------------------------------------------------------------------------
(* Properties of BFS and edgeMap *)

\* The hop-distance levels from the frontier front, visited being the
\* vertices of the levels up to it: level k is element k + 1.
RECURSIVE Levels(_, _, _)
Levels(G, visited, front) ==
  IF front = {} THEN <<>>
  ELSE LET nxt == {v \in 0 .. G.n - 1 :
                     v \notin visited /\ \E u \in front : <<u, v>> \in G.E}
       IN  <<front>> \o Levels(G, visited \cup nxt, nxt)

LevelsOf == Levels(GA, {bsrc}, {bsrc})

Reach == UNION {LevelsOf[k] : k \in DOMAIN LevelsOf}

\* The hop distance of a reachable vertex.
Dist(v) == CHOOSE k \in 0 .. Len(LevelsOf) - 1 : v \in LevelsOf[k + 1]

\* C6: when BFS returns, Parents[src] = src, every other reachable v has a
\* parent u with an edge (u, v) one hop closer to src, and every unreachable
\* v has UINT_E_MAX, whatever the order of the concurrent updates; on the
\* path Parents[v] = v - 1 and on the star Parents[v] = 0.
C6_BFSResult ==
  bpc = "done" =>
    /\ Parents[bsrc] = bsrc
    /\ \A v \in (0 .. GA.n - 1) \ {bsrc} :
         IF v \in Reach
           THEN /\ Parents[v] \in Reach
                /\ <<Parents[v], v>> \in GA.E
                /\ Dist(Parents[v]) = Dist(v) - 1
           ELSE Parents[v] = UINT_E_MAX
    /\ GA = PathGraph => Parents = [v \in 0 .. PathLen - 1 |-> IF v = 0 THEN 0 ELSE v - 1]
    /\ GA = StarGraph => Parents = [v \in 0 .. StarLeaves |-> 0]

\* BFS has returned and some vertex with two possible parents got the one
\* with the larger id.
C6_Witness ==
  /\ bpc = "done"
  /\ \E v \in Reach \ {bsrc} :
       \E u \in Reach : /\ u < Parents[v] /\ <<u, v>> \in GA.E
                        /\ Dist(u) = Dist(v) - 1

\* C7: at the while test after k rounds the frontier is the set of vertices
\* at hop distance k; the sizes printed are the level sizes, and the final
\* reachable total is the number of vertices reachable from src.
C7_Levels ==
  /\ bpc = "loop" =>
       Frontier = IF Len(printed) < Len(LevelsOf) THEN LevelsOf[Len(printed) + 1]
                  ELSE {}
  /\ bpc \in {"loop", "sparse", "done"} =>
       /\ Len(printed) <= Len(LevelsOf)
       /\ \A k \in DOMAIN printed : printed[k] = Cardinality(LevelsOf[k])
  /\ bpc = "done" =>
       /\ Len(printed) = Len(LevelsOf)
       /\ reachable = Cardinality(Reach)

\* BFS has returned after two rounds or more, one of them with a frontier of
\* several vertices, on a graph with an unreachable vertex.
C7_Witness ==
  /\ bpc = "done" /\ Len(printed) >= 2
  /\ \E k \in DOMAIN printed : printed[k] >= 2
  /\ reachable < GA.n

\* C9: for any graph, Parents and frontier, the destinations accepted by
\* update in pull mode are those accepted by some updateAtomic call in push
\* mode, in whatever order the push calls are made.
C9_PushPull ==
  bpc = "em_done" => output = outputD.out

\* Both runs are over; a destination with two in-neighbors in the frontier
\* was accepted and one with an in-neighbor in the frontier was not.
C9_Witness ==
  /\ bpc = "em_done"
  /\ \E d \in output : Cardinality({e \in GA.E : e[2] = d /\ e[1] \in Frontier}) >= 2
  /\ \E e \in GA.E : e[1] \in Frontier /\ e[2] \notin output

\* C23, amended: under every interleaving of the updateAtomic calls of the
\* whole run, each Parents[d] changes at most once, from UINT_E_MAX to a
\* vertex of the current frontier, and never afterwards; for each destination
\* d at most one updateAtomic call on d returns true, exactly one in the
\* push round that sets Parents[d] and none for src or for a d whose parent a
\* pull round set; d is put into at most one frontier, once.
C23_SingleShot ==
  /\ [][\A d \in DOMAIN Parents :
          Parents'[d] # Parents[d]
            => /\ Parents[d] = UINT_E_MAX
               /\ Parents'[d] \in Frontier
               /\ bpc = "sparse" => wins'[d] = wins[d] + 1]_vars
  /\ [](\A d \in DOMAIN wins :
          /\ wins[d] <= 1
          /\ wins[d] = 1 => d # bsrc /\ Parents[d] # UINT_E_MAX
          /\ entered[d] <= 1)

\* Two calls on one destination have passed cond; the updateAtomic of one
\* has returned true and that of the other is still to come.
C23_Witness ==
  /\ bpc = "sparse"
  /\ \E e \in tested : wins[e[2]] = 1 /\ Parents[e[2]] # e[1]

\* C23 as stated: besides the above, for each destination d of an edge out
\* of a visited vertex exactly one updateAtomic call on d returns true.
C23_ExactlyOne ==
  /\ C23_SingleShot
  /\ [](bpc = "done"
          => \A d \in DOMAIN wins :
               (\E s \in Reach : <<s, d>> \in GA.E) => wins[d] = 1)

\* C24: for every graph and source the loop while (!Frontier.isEmpty())
\* exits; the rounds made are the largest hop distance of a reachable vertex
\* plus one, at most n, and the exit follows an edgeMap whose output subset
\* is empty.
C24_Terminates ==
  /\ <>(bpc = "done")
  /\ [](bpc = "done"
          => /\ Frontier = {}
             /\ \E v \in Reach : Len(printed) = Dist(v) + 1
             /\ \A v \in Reach : Dist(v) + 1 <= Len(printed)
             /\ Len(printed) <= GA.n)
  /\ [][bpc' = "done" /\ bpc # "done" => output = {} /\ Frontier = {} /\ printed # <<>>]_vars

\* BFS has returned after n rounds, the last of them in push mode.
C24_Witness ==
  /\ bpc = "done" /\ Len(printed) = GA.n /\ GA.n = PathLen
  /\ wins[GA.n - 1] = 1

-----------------------------------------------------------------------------
(* Properties of wBFS *)

\* Path weights: a number up to INT_E_MAX, Over for a weight of 2^31 or more,
\* Unreached for no path.
Over == 0 - 1
Unreached == 0 - 2

SatAdd(a, w) == IF a = Over \/ a > INT_E_MAX - w THEN Over ELSE a + w

\* a is a smaller weight than b.
Lighter(a, b) ==
  /\ a # Unreached
  /\ \/ b = Unreached
     \/ b = Over /\ a # Over
     \/ a # Over /\ b # Over /\ a < b

MinWeight(S) == CHOOSE a \in S : \A b \in S : ~Lighter(b, a)

\* k rounds of relaxing every edge of G, from vertex 0.
RECURSIVE Relax(_, _)
Relax(G, k) ==
  IF k = 0
    THEN [v \in 0 .. G.n - 1 |-> IF v = 0 THEN 0 ELSE Unreached]
    ELSE LET D == Relax(G, k - 1)
         IN  [v \in 0 .. G.n - 1 |->
                MinWeight({D[v]} \cup {SatAdd(D[e[1]], e[3]) :
                             e \in {f \in G.E : f[2] = v /\ D[f[1]] # Unreached}})]

\* The minimum total weight of a path from vertex 0 to each vertex.
MinPath(G) == Relax(G, G.n - 1)

\* No edge out of a reachable vertex s takes the weight of s past INT_E_MAX.
NoWrap(G) ==
  \A e \in G.E :
    MinPath(G)[e[1]] # Unreached => SatAdd(MinPath(G)[e[1]], e[3]) # Over

\* dists is what the claim says it is.
DistsAreMinPaths ==
  /\ \A v \in 0 .. WG.n - 1 :
       /\ MinPath(WG)[v] = Unreached => dists[v] = U32(INT_E_MAX)
       /\ MinPath(WG)[v] # Unreached =>
            MinPath(WG)[v] # Over /\ dists[v] = U32(MinPath(WG)[v])
  /\ WG = Triangle => dists = [v \in 0 .. 2 |-> U32(v)] /\ rd >= 2

\* C8 as stated: when wBFS returns on a graph with positive 32-bit weights,
\* dists[src] = 0, dists[v] is the minimum total weight of a path from src to
\* v for every reachable v and INT_E_MAX for every unreachable v, and the
\* triangle gives [0, 1, 2] after at least 2 rounds.
C8_AnyWeights == wpc = "done" => DistsAreMinPaths

\* C8, amended: the same, for the graphs in which no edge out of a reachable
\* vertex s has dist(s) + w above INT_E_MAX.
C8_WBFSResult == wpc = "done" /\ NoWrap(WG) => DistsAreMinPaths

\* wBFS has returned on a graph with an unreachable vertex and a vertex whose
\* edge of weight 5 from the source is beaten by a path of weight 2.
C8_Witness ==
  /\ wpc = "done" /\ NoWrap(WG)
  /\ \E v \in 0 .. WG.n - 1 : MinPath(WG)[v] = Unreached
  /\ \E v \in 0 .. WG.n - 1 : <<0, v, 5>> \in WG.E /\ dists[v] = U32(2)

\* The updateAtomic calls of this round on d, and what they offer: dists[s] +
\* w, Over when that is 2^31 or more.
CallsOn(d) == {e \in WG.E : e[2] = d /\ e[1] \in bkt.identifiers}
Offered(d) == {SatAdd(dists0[e[1]].low, e[3]) : e \in CallsOn(d)}

\* Every call of the round has returned.
RoundOver == wpc = "em" /\ wcalls = {} /\ inflight = {}

\* No call of the round offers 2^31 or more.
RoundNoWrap == \A d \in DOMAIN dists : Over \notin Offered(d)

FirstVisitor ==
  \A d \in DOMAIN dists :
    /\ presents[d] <= 1
    /\ d \in lowered => presents[d] = 1
    /\ \A r \in res : r[1] = d => r[2] = dists0[d] /\ ~HasTopBit(r[2])
    /\ RoundOver => dists[d].low = MinWeight({dists0[d].low} \cup Offered(d))

\* C25 as stated: within one edgeMapData round of wBFS, under every
\* interleaving of the updateAtomic calls, for each destination d at most one
\* call returns a value, exactly one if any call lowered dists[d], the value
\* is dists[d] as at the start of the round, without TOP_BIT, and at the end of
\* the round dists[d] without TOP_BIT is the minimum of its old value and all
\* offered dists[s] + w.
C25_AnyRound == wpc = "em" => FirstVisitor

\* C25, amended: the same, for the rounds in which no offered dists[s] + w is
\* above INT_E_MAX.
C25_FirstVisitor == wpc = "em" /\ RoundNoWrap => FirstVisitor

\* A round is over in which two calls were made on d, the call that returned
\* a value offered more than another one, and dists[d] is the smaller offer.
C25_Witness ==
  /\ RoundOver /\ RoundNoWrap
  /\ \E d \in DOMAIN dists :
       /\ presents[d] = 1 /\ HasTopBit(dists[d])
       /\ \E a, b \in Offered(d) : dists[d].low = a /\ a < b /\ b < dists0[d].low

\* C26: at every while test of wBFS (after vertexMap(res, apply_f) of the
\* round before) no entry of dists has TOP_BIT set: every vertex whose
\* distance is marked during a round is in the round's output subset res, and
\* apply_f removes the mark before update_buckets and the next next_bucket().
C26_TopBitRoundLocal ==
  /\ wpc \in {"loop", "done"} => \A v \in DOMAIN dists : ~HasTopBit(dists[v])
  /\ wpc = "em" =>
       \A v \in DOMAIN dists : HasTopBit(dists[v]) => \E r \in res : r[1] = v
  /\ wpc = "loop" =>
       \A v \in DOMAIN prio : prio[v] # UINT_E_MAX => prio[v] = dists[v].low

\* wBFS is at its while test after a round that marked a vertex and wrote
\* its distance twice.
C26_Witness ==
  /\ wpc = "loop" /\ rd >= 2
  /\ \E v \in lowered :
       /\ presents[v] = 1 /\ ~HasTopBit(dists[v])
       /\ \E a \in Offered(v) : a # Over /\ dists[v].low < a /\ a < dists0[v].low

-----------------------------------------------------------------------------
(* Properties of the buckets in the peeling loops *)

\* The identifiers returned by next_bucket() so far.
Extracted == UNION {returned[i].identifiers : i \in DOMAIN returned}

\* The identifiers of finite priority: the vertices of finite distance, the
\* table slots that hold an edge.
FinitePriority ==
  IF wpc # "off" THEN {v \in DOMAIN dists : get_bkt(AndValMask(dists[v])) # UINT_E_MAX}
                 ELSE KG

\* C11: in wBFS and KTruss_ht, as long as no update's destination was below
\* the bucket being processed, the ids of the non-empty buckets returned by
\* successive next_bucket() calls never decrease, and next_bucket() returns
\* the null bucket only when every identifier of finite priority has been
\* extracted.
C11_BucketMonotone ==
  ~belowCur =>
    /\ \A i, j \in DOMAIN returned :
         i < j /\ returned[i].id # null_bkt /\ returned[j].id # null_bkt
           => returned[i].id <= returned[j].id
    /\ \A i \in DOMAIN returned :
         returned[i].id = null_bkt => FinitePriority \subseteq Extracted

\* KTruss_ht has peeled every edge, next_bucket() having returned a higher
\* bucket after one call and the same bucket again after another.
C11_Witness ==
  /\ kpc = "done" /\ ~belowCur
  /\ \E i \in DOMAIN returned :
       i + 1 \in DOMAIN returned /\ returned[i + 1].id = returned[i].id
  /\ \E i \in DOMAIN returned :
       i + 1 \in DOMAIN returned /\ returned[i + 1].id > returned[i].id

\* The bucket an extracted edge was returned in.
PeeledFrom(e) ==
  returned[CHOOSE i \in DOMAIN returned : e \in returned[i].identifiers].id

C28_StoredTrussness ==
  kpc # "off" =>
  \A e \in Extracted :
    /\ PeeledFrom(e) >= 1 => trussness[e] = PeeledFrom(e) - 1
    /\ trussness[e] = INT_E_MAX <=> PeeledFrom(e) = 0

\* The same for the edges peeled before the last round.
C28_StoredBeforeLast ==
  kpc # "off" =>
  \A e \in Extracted :
    finished # Cardinality(KG) \/ e \notin returned[Len(returned)].identifiers
      => /\ PeeledFrom(e) >= 1 => trussness[e] = PeeledFrom(e) - 1
         /\ trussness[e] = INT_E_MAX <=> PeeledFrom(e) = 0

-----------------------------------------------------------------------------
(* Properties of the allocator *)

\* The number of allocations returned by alloc and not yet passed to free.
RECURSIVE SumHeld(_)
SumHeld(i) == IF i = 0 THEN 0 ELSE SumHeld(i - 1) + held[i]

OutstandingCount == SumHeld(Len(held))

\* The blocks chained from b by next, b included, at most n of them.
RECURSIVE Chain(_, _)
Chain(b, n) ==
  IF n = 0 \/ b \notin DOMAIN next THEN {}
  ELSE {b} \cup Chain(next[b], n - 1)

\* The blocks on a local list or on a list of the global stack.
Listed ==
  UNION ({Chain(local_lists[id].head, local_lists[id].sz) : id \in Workers}
         \cup {Chain(global_stack[i], Len(next)) : i \in DOMAIN global_stack})

\* C4: in every quiescent state, after any alloc and free calls by any
\* workers, num_used_blocks() is the number of blocks returned by alloc and
\* not yet freed (0 when every allocated block has been freed).
C4_Conservation ==
  /\ Quiescent => num_used_blocks = OutstandingCount
  /\ aout.op = "num_used" => aout.res = OutstandingCount

\* num_used_blocks was called with blocks outstanding after a free pushed
\* the older half of a local list to the global stack: a list of the stack
\* does not start at the first block of a slab.
C4_Witness ==
  /\ aout.op = "num_used" /\ aout.res > 0
  /\ \E i \in DOMAIN global_stack : global_stack[i] % list_length # 1

\* C5: no block is held by two outstanding allocations, and no outstanding
\* block is on a local list or on a list of the global stack.
C5_Exclusive ==
  \A b \in DOMAIN held :
    /\ held[b] <= 1
    /\ held[b] = 1 => b \notin Listed

\* Blocks are outstanding and more allocs have returned than there are
\* blocks (a block was allocated, freed and allocated again), while a worker
\* is inside alloc.
C5_Witness ==
  /\ \E id \in Workers : apc[id] # "idle"
  /\ Cardinality(Outstanding) >= 3
  /\ acalls - Cardinality({id \in Workers : apc[id] # "idle"}) > Len(next)

\* The blocks of the slab worker id has obtained in allocate_blocks.
Slab(id) == areg[id].start .. areg[id].start + areg[id].num_blocks - 1

\* The blocks handed out: returned by alloc, or on a list an alloc can pop.
HandedOut == Outstanding \cup Listed

\* C12: the process ends in allocate_blocks only with blocks_allocated above
\* max_blocks; whenever blocks_allocated is above max_blocks the process has
\* ended or the worker whose slab exceeded is at the test that ends it; no
\* block of a slab whose test is still to come is handed out, so that the
\* blocks handed out are never more than max_blocks.
C12_CapFatal ==
  /\ exited => blocks_allocated > max_blocks
  /\ blocks_allocated > max_blocks =>
       \/ exited
       \/ \E id \in Workers :
            apc[id] = "check" /\ blocks_allocated - areg[id].num_blocks <= max_blocks
  /\ \A id \in Workers :
       apc[id] \in {"count", "check"} => Slab(id) \cap HandedOut = {}
  /\ Cardinality(HandedOut) <= max_blocks

\* The process has ended at the test of an alloc's slab that exceeded
\* max_blocks, after the slab that brought blocks_allocated to max_blocks
\* exactly was accepted and a block of it returned by alloc.
C12_Witness ==
  /\ exited
  /\ Len(pool_roots) = 2
  /\ \E id \in Workers :
       /\ apc[id] = "check" /\ areg[id].lists = {}
       /\ areg[id].start = max_blocks + 1
  /\ \E b \in Outstanding : b \in pool_roots[1] .. max_blocks

\* The fresh lists of worker id's slab: one for alloc's get_list, num_lists
\* for reserve.
FreshLists(id) ==
  IF areg[id].lists = {} THEN 1 ELSE Cardinality(areg[id].lists)

\* C13: blocks_allocated never decreases; a step that takes an outstanding
\* block back (free) leaves it unchanged; a step that increases it is the
\* count of a worker's fresh slab, by list_length per list of the slab.
C13_Monotone ==
  [][/\ blocks_allocated' >= blocks_allocated
     /\ (\E b \in DOMAIN held : held'[b] < held[b])
          => blocks_allocated' = blocks_allocated
     /\ blocks_allocated' > blocks_allocated
          => \E id \in Workers :
               /\ apc[id] = "count" /\ apc'[id] = "check"
               /\ blocks_allocated' =
                    blocks_allocated + list_length * FreshLists(id)]_vars

\* blocks_allocated counts the constructor's reserve and the slab of an
\* alloc, and a worker's local list has grown past list_length by frees.
C13_Witness ==
  /\ Len(pool_roots) = 2
  /\ blocks_allocated = list_length * (thread_count + 1)
  /\ \E id \in Workers : local_lists[id].sz > list_length

\* The block reached from b by k steps along the next fields nx.
RECURSIVE Nth(_, _, _)
Nth(nx, b, k) ==
  IF k = 0 THEN b
  ELSE IF b \in DOMAIN nx THEN Nth(nx, nx[b], k - 1)
  ELSE JUNK

\* The blocks chained from b by the next fields nx, at most n of them.
RECURSIVE ChainIn(_, _, _)
ChainIn(nx, b, n) ==
  IF n = 0 \/ b \notin DOMAIN nx THEN {}
  ELSE {b} \cup ChainIn(nx, nx[b], n - 1)

\* With the next fields nx, b heads a NULL-terminated list of exactly k
\* blocks.
IsList(nx, b, k) == Nth(nx, b, k) = NULL /\ Cardinality(ChainIn(nx, b, k)) = k

\* The step is a free call of worker id: an outstanding block is taken back
\* and becomes the head of the worker's list.
FreeBy(id) ==
  /\ \E b \in DOMAIN held : held'[b] < held[b] /\ local_lists'[id].head = b
  /\ local_lists'[id] # local_lists[id]

\* C21: a free call that finds the caller's local list with exactly
\* 2 * list_length blocks pushes exactly list_length of them on the global
\* stack as one NULL-terminated list, keeps the other list_length and then
\* pushes the freed block (local size list_length + 1); every list on the
\* global stack has exactly list_length blocks.
C21_ReturnHalf ==
  /\ [][\A id \in Workers :
          (FreeBy(id) /\ local_lists[id].sz = 2 * list_length)
            => /\ Len(global_stack') = Len(global_stack) + 1
               /\ IsList(next', global_stack'[1], list_length)
               /\ ChainIn(next', global_stack'[1], list_length)
                    \subseteq Chain(local_lists[id].head, 2 * list_length)
               /\ local_lists'[id].sz = list_length + 1
               /\ IsList(next', local_lists'[id].head, list_length + 1)
               /\ ChainIn(next', local_lists'[id].head, list_length + 1)
                    \cap ChainIn(next', global_stack'[1], list_length) = {}]_vars
  /\ [](\A i \in DOMAIN global_stack : IsList(next, global_stack[i], list_length))

\* C21 for the allocators whose lists have two blocks or more.
C21_ReturnHalfOfLong ==
  /\ [][\A id \in Workers :
          (FreeBy(id) /\ local_lists[id].sz = 2 * list_length /\ list_length >= 2)
            => /\ Len(global_stack') = Len(global_stack) + 1
               /\ IsList(next', global_stack'[1], list_length)
               /\ local_lists'[id].sz = list_length + 1
               /\ IsList(next', local_lists'[id].head, list_length + 1)]_vars
  /\ [](\A i \in DOMAIN global_stack : IsList(next, global_stack[i], list_length))

\* C22: for every list_length >= 1 and every sequence of alloc and free
\* calls of a worker, the worker's local list never holds more than
\* 2 * list_length blocks, and its sz is the number of blocks chained from
\* its head.
C22_LocalBound ==
  \A id \in Workers :
    /\ local_lists[id].sz <= 2 * list_length
    /\ IsList(next, local_lists[id].head, local_lists[id].sz)

\* C22 for the allocators whose lists have two blocks or more.
C22_LocalBoundOfLong == list_length >= 2 => C22_LocalBound

-----------------------------------------------------------------------------
(* Properties of the codec *)

\* The <<ngh, wgh>> pairs of a sequence of callback invocations.
PairsOf(calls) == [i \in 1 .. Len(calls) |-> <<calls[i][2], calls[i][3]>>]

\* The block of the region that holds edge index k: block j holds the indices
\* from its header's start offset up to the next block's (or the degree).
BlockOf(k) ==
  CHOOSE j \in 0 .. NumBlocks(VirtualDegree(edgeArray)) - 1 :
    BlockStart(edgeArray, j) <= k /\ k < BlockEnd(edgeArray, j, degree)

\* Edge index k was handed to the callback by the last decode.
Delivered(k) == \E n \in 1 .. Len(out.res) : out.res[n][4] = k

\* C1: decoding a freshly encoded region with a callback that always returns
\* true makes exactly d calls, the i-th (counted from 0) with the source, the
\* i-th neighbor, the i-th weight and edge index i.
C1_RoundTrip ==
  (out.op = "decode" /\ out.arg = {} /\ preds = <<>>)
    => out.res = [i \in 1 .. Len(input) |->
                    <<source, input[i][1], input[i][2], i - 1>>]

\* A round trip of a weighted list of several blocks whose first edge lies
\* below the source and that has a negative weight.
C1_Witness ==
  /\ out.op = "decode" /\ out.arg = {} /\ preds = <<>>
  /\ weighted /\ Len(out.res) > PARALLEL_DEGREE
  /\ out.res[1][2] < source
  /\ \E n \in 1 .. Len(out.res) : out.res[n][3] < 0

\* C2: get_ith_neighbor(i) returns the pair that decode delivers with edge
\* index i.
C2_RandomAccess ==
  out.op = "get_ith"
    => \A i \in out.arg :
         LET calls == decode(edgeArray, source, degree, weighted, {})
         IN  \E n \in 1 .. Len(calls) :
               calls[n][4] = i /\ out.res[1] = <<calls[n][2], calls[n][3]>>

\* The original pairs that satisfy every predicate of ps, in their order.
RECURSIVE Survivors(_, _)
Survivors(es, ps) ==
  IF ps = <<>> THEN es
  ELSE Survivors(SelectSeq(es, LAMBDA e : PredHolds(Head(ps), source, e[1], e[2])),
                 Tail(ps))

BodyBytes(sp) == sp.finger + 4 .. sp.finger + sp.final_off - 1

C14_DegreeCount ==
  cpc # "input"
    => /\ cpc = "encoded"
       /\ degree = Len(Survivors(input, preds))
       /\ Len(decode(edgeArray, source, degree, weighted, {})) = degree

\* The virtual degree after the first n packs when a pack replaces it by the
\* surviving degree s exactly if 0 < s < floor(virtual degree / 10).
RECURSIVE VirtualAfter(_)
VirtualAfter(n) ==
  IF n = 0 THEN Len(input)
  ELSE LET s  == Len(Survivors(input, SubSeq(preds, 1, n)))
           vd == VirtualAfter(n - 1)
       IN  IF 0 < s /\ s < vd \div 10 THEN s ELSE vd

PairsAt(at, n) ==
  LET K(f) == readEdges(edgeArray, f.finger, f.ngh, 1, n, weighted,
                        <<<<f.ngh, f.wgh>>>>)
  IN  K(eatFirstPair(edgeArray, at, source, weighted))

Shared == {e[1] : e \in {Survivors(input, preds)[i] :
                           i \in 1 .. Len(Survivors(input, preds))}} \cap out.arg

\* C16: intersect returns the number of neighbor ids present in both lists,
\* for fresh regions and for regions pack has reduced below their virtual
\* degree; intersect_f returns the same number and calls
\* f(l1_src, l2_src, x) exactly once for each shared neighbor x and for no
\* other value.
C16_Intersect ==
  out.op = "intersect"
    => LET r == out.res[1]
           g == out.res[2]
       IN  /\ ~r.wild /\ ~g.wild
           /\ r.ct = Cardinality(Shared)
           /\ g.ct = Cardinality(Shared)
           /\ Len(g.calls) = Cardinality(Shared)
           /\ {g.calls[i] : i \in 1 .. Len(g.calls)}
                = {<<source, out.res[3], x>> : x \in Shared}

\* C29: during intersect and intersect_f, simple_iter::next() is never
\* called on an iterator whose last edge has been consumed (has_next() false),
\* so no byte beyond the encoded region is read, also when the last elements
\* of both lists match.
C29_NoNextPastEnd ==
  out.op = "intersect" => out.res[1].past = 0 /\ out.res[2].past = 0

\* Every intersection of two lists that runs to the end of one of them makes
\* such a call: the iteration that consumes a list's last edge calls next().
C29_NextPastEnd ==
  out.op = "intersect" /\ degree > 0 /\ ~out.res[2].wild
    => out.res[1].past >= 1 /\ out.res[2].past >= 1

\* C19: for every region of degree d >= 1, fresh or left by pack with empty
\* or partly filled blocks, cur() once and then next() while has_next()
\* yields exactly d pairs, equal in value and order to the pairs a
\* sequential decode of the region delivers.
C19_CursorIsDecode ==
  out.op = "iter"
    => LET calls == decode(edgeArray, source, degree, weighted, {})
       IN  /\ Len(out.res) = degree
           /\ out.res = [i \in 1 .. Len(calls) |-> <<calls[i][2], calls[i][3]>>]

\* A walk over a packed region whose first block is full, whose second is
\* empty and whose last holds one edge.
C19_Witness ==
  /\ out.op = "iter" /\ degree = 3 /\ VirtualDegree(edgeArray) = 6
  /\ ChunkDegree(edgeArray, 0, degree) = PARALLEL_DEGREE
  /\ ChunkDegree(edgeArray, 1, degree) = 0
  /\ ChunkDegree(edgeArray, 2, degree) = 1
  /\ Len(out.res) = 3

\* C20: for an unweighted region of more than two blocks and a callback that
\* returns true, the parallel decode makes, under every interleaving of the
\* tasks of the blocks, the calls (source, neighbor, edge index) of the
\* sequential decode, each exactly once, those of one block by increasing
\* edge index.
C20_ParallelIsSequential ==
  (out.op = "decode_parallel" /\ NumBlocks(VirtualDegree(edgeArray)) > 2)
    => LET seq == decode(edgeArray, source, degree, FALSE, {})
           par == out.res
       IN  /\ {par[n] : n \in 1 .. Len(par)} = {seq[n] : n \in 1 .. Len(seq)}
           /\ Len(par) = Len(seq)
           /\ \A m, n \in 1 .. Len(par) :
                (m < n /\ BlockOf(par[m][4]) = BlockOf(par[n][4]))
                  => par[m][4] < par[n][4]

\* A parallel decode in which a call of a later block came before a call of
\* an earlier one.
C20_Witness ==
  /\ out.op = "decode_parallel" /\ NumBlocks(VirtualDegree(edgeArray)) > 2
  /\ \E m, n \in 1 .. Len(out.res) :
       m < n /\ BlockOf(out.res[m][4]) > BlockOf(out.res[n][4]) /\ BlockOf(out.res[n][4]) > 0

\* C18: in every state reachable from a freshly encoded region by pack calls,
\* the stored virtual degree is at least the current degree, and every
\* reader addresses ceil(virtual_degree / PARALLEL_DEGREE) blocks.
C18_VirtualDegree ==
  cpc = "encoded"
    => /\ VirtualDegree(edgeArray) >= degree
       /\ degree > 0
            => \A r \in DOMAIN ReaderBlocks(edgeArray, degree) :
                 ReaderBlocks(edgeArray, degree)[r]
                   = (VirtualDegree(edgeArray) + PARALLEL_DEGREE - 1)
                       \div PARALLEL_DEGREE

\* C18 without simple_iter.
C18_VirtualDegreeOthers ==
  cpc = "encoded"
    => /\ VirtualDegree(edgeArray) >= degree
       /\ degree > 0
            => \A r \in DOMAIN ReaderBlocks(edgeArray, degree) \ {"simple_iter"} :
                 ReaderBlocks(edgeArray, degree)[r]
                   = (VirtualDegree(edgeArray) + PARALLEL_DEGREE - 1)
                       \div PARALLEL_DEGREE

\* C16 on the regions that no pack has touched.
C16_IntersectFresh == preds = <<>> => C16_Intersect

\* C10 as stated: when the callback returns false on an edge, no later edge
\* of the same block is delivered and every edge of every other block is, in
\* whichever block the false was returned and for both weight types; so an
\* edge is delivered exactly if no earlier edge of its block is a false one.
C10_PerBlockEverywhere ==
  (out.op = "decode" /\ out.arg # {})
    => \A k \in 0 .. degree - 1 :
         Delivered(k) <=> ~ \E s \in out.arg : BlockOf(s) = BlockOf(k) /\ s < k

\* C10 amended: no edge after a false one of its own block is delivered; the
\* edges of the other blocks are delivered unless the false was returned in
\* an earlier block and either that block is the first or the weights are
\* integers (decode then returns at once).
C10_ShortCircuit ==
  (out.op = "decode" /\ out.arg # {})
    => \A k \in 0 .. degree - 1 :
         Delivered(k) <=>
           /\ ~ \E s \in out.arg : BlockOf(s) = BlockOf(k) /\ s < k
           /\ ~ \E s \in out.arg : /\ BlockOf(s) < BlockOf(k)
                                   /\ (weighted \/ BlockOf(s) = 0)

\* A unit-weight decode whose callback returned false in a block after the
\* first, with a later edge in that block and with further blocks behind it.
C10_Witness ==
  /\ out.op = "decode" /\ ~weighted
  /\ \E s \in out.arg :
       /\ BlockOf(s) >= 1
       /\ s + 1 < degree /\ BlockOf(s + 1) = BlockOf(s) /\ ~Delivered(s + 1)
       /\ \E k \in 0 .. degree - 1 : BlockOf(k) > BlockOf(s) /\ Delivered(k)

====
